---- MODULE Spec2Model ----
(***************************************************************************)
(* Model of MojoTemplateFormatter (src/mojo_formatter_final.py): the       *)
(* embedded-Perl normalizer, the line classifier and indenter (pass 2)     *)
(* and the closing-tag splitter (post-pass).                               *)
(*                                                                         *)
(* Text is modelled as a sequence of lexemes ("tokens").  A token is a     *)
(* record [k, n]: k is the kind of lexeme and n its text.  Token           *)
(* boundaries are placed where the regular expressions of the source can   *)
(* start or end a match, so that each pattern of the source becomes a      *)
(* predicate over token sequences:                                         *)
(*    open   <n>     an opening tag without attributes                     *)
(*    close  </n>    a closing tag                                         *)
(*    self   <n/>    a self-closing tag                                    *)
(*    ws     one whitespace character                                      *)
(*    nl     a line break                                                  *)
(*    txt    any other run of characters (a word or a symbol); word        *)
(*           tokens are separated from each other by ws                    *)
(* An end delimiter %> is the txt token % directly followed by the txt     *)
(* token >; the start delimiter <% is one txt token.                       *)
(***************************************************************************)
EXTENDS Integers, Sequences, FiniteSets, TLC

VARIABLES
    pc,              \* position in format(): "start", "pass2", "post", "done", "raised"
    content,         \* the argument of format(): the raw text
    lines,           \* content.splitlines() after the first pass
    i,               \* the loop index of format() (lines consumed)
    self,            \* the MojoTemplateFormatter object
    result_lines,    \* _postprocess_closing_tags: result_lines
    in_perl_block,   \* _postprocess_closing_tags: in_perl_block
    pi,              \* _postprocess_closing_tags: loop index i
    origin,          \* for each result line, the index of the output line it came from
    tool,            \* what each perltidy run of this call does, in the order of the runs
    os,              \* the files outside the formatter: temporary and inspection files
    reused,          \* the states in which earlier calls of format() left the formatter object
    par,             \* two calls of format_mojolicious_template running interleaved
    web              \* the hosting layer (src/website.py): rate counters, last request and response

vars == <<pc, content, lines, i, self, result_lines, in_perl_block, pi, origin, tool, os,
          reused, par, web>>

\* The longest document, in lines.
MaxLines == 3

-----------------------------------------------------------------------------
(* Tokens *)

O(n) == [k |-> "open", n |-> n]
C(n) == [k |-> "close", n |-> n]
S(n) == [k |-> "self", n |-> n]
T(x) == [k |-> "txt", n |-> x]
W == [k |-> "ws", n |-> " "]
NL == [k |-> "nl", n |-> "\n"]

IsWs(t) == t.k = "ws"
IsTxt(t, x) == t.k = "txt" /\ t.n = x
IsOpenTag(t) == t.k = "open"
IsCloseTag(t) == t.k = "close"
IsSelfClosingTag(t) == t.k = "self"

\* str.lower() on a tag name.
Lower(n) ==
    CASE n = "DIV" -> "div"
      [] n = "P" -> "p"
      [] n = "SPAN" -> "span"
      [] n = "BR" -> "br"
      [] OTHER -> n

\* The first character of a token, as far as the source tells characters apart.
FirstChar(t) ==
    CASE t.k = "ws" -> " "
      [] t.k = "nl" -> "\n"
      [] t.k \in {"open", "close", "self"} -> "<"
      [] t.n \in {"=", "=>"} -> "="
      [] t.n = "#" -> "#"
      [] t.n = "%" -> "%"
      [] t.n = "<%" -> "<"
      [] OTHER -> "other"

\* The token ends with the character %.
EndsWithPct(t) == t.k = "txt" /\ t.n \in {"%", "<%"}

-----------------------------------------------------------------------------
(* Strings as token sequences *)

RECURSIVE LStrip(_)
LStrip(s) == IF s # <<>> /\ IsWs(Head(s)) THEN LStrip(Tail(s)) ELSE s

RECURSIVE RStrip(_)
RStrip(s) ==
    IF s # <<>> /\ IsWs(s[Len(s)]) THEN RStrip(SubSeq(s, 1, Len(s) - 1)) ELSE s

Strip(s) == RStrip(LStrip(s))

\* ' ' * n
Spaces(n) == [x \in 1..n |-> W]

\* len(line) - len(line.lstrip())
LeadingSpaces(s) == Len(s) - Len(LStrip(s))

\* The first position at or after p that holds no whitespace (Len(s) + 1 if none).
RECURSIVE SkipWs(_, _)
SkipWs(s, p) == IF p <= Len(s) /\ IsWs(s[p]) THEN SkipWs(s, p + 1) ELSE p

\* pattern.findall for a pattern that matches single tokens: the names, in order.
RECURSIVE NamesOf(_, _)
NamesOf(s, kind) ==
    IF s = <<>> THEN <<>>
    ELSE (IF Head(s).k = kind THEN <<Head(s).n>> ELSE <<>>) \o NamesOf(Tail(s), kind)

RECURSIVE Join(_)
Join(ls) ==
    IF ls = <<>> THEN <<>>
    ELSE IF Len(ls) = 1 THEN ls[1]
    ELSE ls[1] \o <<NL>> \o Join(Tail(ls))

\* str.splitlines(): a line break ends a line; a trailing line break starts no line.
RECURSIVE SplitAcc(_, _)
SplitAcc(s, cur) ==
    IF s = <<>> THEN (IF cur = <<>> THEN <<>> ELSE <<cur>>)
    ELSE IF Head(s).k = "nl" THEN <<cur>> \o SplitAcc(Tail(s), <<>>)
    ELSE SplitAcc(Tail(s), Append(cur, Head(s)))

SplitLines(s) == SplitAcc(s, <<>>)

InSeq(x, s) == \E p \in 1..Len(s) : s[p] = x

\* list.remove(x) for x in the list: the first occurrence goes.
RECURSIVE RemoveFirst(_, _)
RemoveFirst(s, x) ==
    IF s = <<>> THEN <<>>
    ELSE IF Head(s) = x THEN Tail(s)
    ELSE <<Head(s)>> \o RemoveFirst(Tail(s), x)

\* [t.lower() for t in stack]
RECURSIVE LowerAll(_)
LowerAll(s) == IF s = <<>> THEN <<>> ELSE <<Lower(Head(s))>> \o LowerAll(Tail(s))

Max(a, b) == IF a >= b THEN a ELSE b
Min(a, b) == IF a <= b THEN a ELSE b

-----------------------------------------------------------------------------
(* The patterns of __init__ *)

\* non_indenting_tags with its last entry left out.
non_indenting_tags_short == <<"br", "hr", "img", "input", "link">>

\* self.non_indenting_tags
non_indenting_tags == <<"br", "hr", "img", "input", "link", "meta">>

\* self.minimal_indent_tags
minimal_indent_tags == <<"span", "p">>

\* <br[^>]*> : an opening or self-closing tag named br (the pattern is case-sensitive).
IsBrTag(t) == t.k \in {"open", "self"} /\ t.n = "br"

\* <tag[^>]*> for a name of non_indenting_tags.
IsTagNamed(t, tag) == t.k \in {"open", "self"} /\ t.n = tag

\* </?tag[^>]*>
IsAnyTagNamed(t, tag) == t.k \in {"open", "self", "close"} /\ t.n = tag

\* html_open_tag_pattern.findall(s)
OpenTags(s) == NamesOf(s, "open")

\* html_close_tag_pattern.findall(s)
CloseTags(s) == NamesOf(s, "close")

\* html_self_closing_tag_pattern.findall(s)
SelfClosingTags(s) == NamesOf(s, "self")

\* multiple_closing_tags_pattern matches at p: (</[^>]+>)(\s*)(</[^>]+>)
AdjacentCloseAt(s, p) ==
    /\ IsCloseTag(s[p])
    /\ SkipWs(s, p + 1) <= Len(s)
    /\ IsCloseTag(s[SkipWs(s, p + 1)])

\* multiple_closing_tags_pattern.search(s)
multiple_closing_tags_pattern(s) == \E p \in 1..Len(s) : AdjacentCloseAt(s, p)

\* multiple_close_tags_pattern.search(s): </[^>]+>.*</[^>]+>
multiple_close_tags_pattern(s) ==
    \E p, q \in 1..Len(s) : p < q /\ IsCloseTag(s[p]) /\ IsCloseTag(s[q])

\* br_with_close_tags_pattern.search(s): <br[^>]*>\s*</[^>]+>
br_with_close_tags_pattern(s) ==
    \E p \in 1..Len(s) :
        /\ IsBrTag(s[p])
        /\ SkipWs(s, p + 1) <= Len(s)
        /\ IsCloseTag(s[SkipWs(s, p + 1)])

\* <br[^>]*>\s*</span> ends at position q (0 if the pattern starts nowhere at p).
BrSpanAt(s, p) ==
    IF /\ IsBrTag(s[p])
       /\ SkipWs(s, p + 1) <= Len(s)
       /\ s[SkipWs(s, p + 1)] = C("span")
    THEN SkipWs(s, p + 1)
    ELSE 0

\* br_span_p_pattern.search(s): <br[^>]*>\s*</span>\s*</p>
br_span_p_pattern(s) ==
    \E p \in 1..Len(s) :
        /\ BrSpanAt(s, p) > 0
        /\ SkipWs(s, BrSpanAt(s, p) + 1) <= Len(s)
        /\ s[SkipWs(s, BrSpanAt(s, p) + 1)] = C("p")

\* br_span_space_p_pattern.search(s): <br[^>]*>\s*</span>\s+</p>
br_span_space_p_pattern(s) ==
    \E p \in 1..Len(s) :
        /\ BrSpanAt(s, p) > 0
        /\ SkipWs(s, BrSpanAt(s, p) + 1) <= Len(s)
        /\ SkipWs(s, BrSpanAt(s, p) + 1) > BrSpanAt(s, p) + 1
        /\ s[SkipWs(s, BrSpanAt(s, p) + 1)] = C("p")

\* %\s*word : a % at p, then optional whitespace, then the token word; the
\* position of word (0 if there is no match at p).
SigilThen(s, p, words) ==
    IF /\ EndsWithPct(s[p])
       /\ SkipWs(s, p + 1) <= Len(s)
       /\ s[SkipWs(s, p + 1)].k = "txt"
       /\ s[SkipWs(s, p + 1)].n \in words
    THEN SkipWs(s, p + 1)
    ELSE 0

\* .*?=>\s*begin\b after position q
ArrowBeginAfter(s, q) ==
    \E r \in (q + 1)..Len(s) :
        /\ IsTxt(s[r], "=>")
        /\ SkipWs(s, r + 1) <= Len(s)
        /\ IsTxt(s[SkipWs(s, r + 1)], "begin")

\* content_block_start_pattern.search(s): %\s*content_for\b.*?=>\s*begin\b
content_block_start_pattern(s) ==
    \E p \in 1..Len(s) :
        /\ SigilThen(s, p, {"content_for"}) > 0
        /\ ArrowBeginAfter(s, SigilThen(s, p, {"content_for"}))

\* form_block_start_pattern.search(s): %=\s*form_for\b.*?=>\s*begin\b
form_block_start_pattern(s) ==
    \E p \in 1..Len(s) :
        /\ EndsWithPct(s[p])
        /\ p + 1 <= Len(s)
        /\ IsTxt(s[p + 1], "=")
        /\ SkipWs(s, p + 2) <= Len(s)
        /\ IsTxt(s[SkipWs(s, p + 2)], "form_for")
        /\ ArrowBeginAfter(s, SkipWs(s, p + 2))

\* perl_block_start_pattern.search(s): %\s*(?:if|for|while|unless|begin)\b.*?{
perl_block_start_pattern(s) ==
    \E p \in 1..Len(s) :
        /\ SigilThen(s, p, {"if", "for", "while", "unless", "begin"}) > 0
        /\ \E r \in (SigilThen(s, p, {"if", "for", "while", "unless", "begin"}) + 1)..Len(s) :
               IsTxt(s[r], "{")

\* perl_block_end_pattern.search(s): %\s*}
perl_block_end_pattern(s) == \E p \in 1..Len(s) : SigilThen(s, p, {"}"}) > 0

\* perl_end_pattern.search(s): %\s*end\b
perl_end_pattern(s) == \E p \in 1..Len(s) : SigilThen(s, p, {"end"}) > 0

-----------------------------------------------------------------------------
(* Pass 2: the line classifier and indenter *)

\* Emit that appends the line twice.
EmitTwice(o, n, text) ==
    [o EXCEPT !.output_lines = Append(Append(@, Spaces(n) \o text), Spaces(n) \o text),
              !.indents = Append(Append(@, n), n)]

\* self.output_lines.append(' ' * n + text); indents records n.
Emit(o, n, text) ==
    [o EXCEPT !.output_lines = Append(@, Spaces(n) \o text),
              !.indents = Append(@, n)]

\* _is_mojo_command_line
IsMojoCommandLine(line) == LStrip(line) # <<>> /\ FirstChar(Head(LStrip(line))) = "%"

\* SigilSpace that also separates the sigil from `=`, `#` and `%`.
SigilSpaceAlways(stripped) ==
    IF /\ IsTxt(Head(stripped), "%")
       /\ Len(stripped) > 1
       /\ FirstChar(stripped[2]) \notin {" ", "\n"}
    THEN <<T("%"), W>> \o Tail(stripped)
    ELSE stripped

\* The space inserted after the sigil (the argument is line.lstrip()).
SigilSpace(stripped) ==
    IF /\ IsTxt(Head(stripped), "%")
       /\ Len(stripped) > 1
       /\ FirstChar(stripped[2]) \notin {"=", "#", "%"}
       /\ FirstChar(stripped[2]) \notin {" ", "\n"}
    THEN <<T("%"), W>> \o Tail(stripped)
    ELSE stripped

\* list.pop()
Pop(stack) == SubSeq(stack, 1, Len(stack) - 1)
Top(stack) == stack[Len(stack)]

\* EndDirective with the mode flags looked at whatever the directive stack holds.
EndDirectiveFlagsFirst(o) ==
    IF o.in_form_block
    THEN [o EXCEPT !.in_form_block = FALSE,
                   !.current_indent = Max(0, @ - o.indent_size)]
    ELSE IF o.in_content_block
    THEN [o EXCEPT !.in_content_block = FALSE,
                   !.current_indent = Max(0, @ - o.indent_size)]
    ELSE IF o.perl_block_stack # <<>>
    THEN [o EXCEPT !.current_indent = Top(o.perl_block_stack),
                   !.perl_block_stack = Pop(@)]
    ELSE o

\* The `% end` branch of _process_mojo_command_line, before the line is emitted.
EndDirective(o) ==
    IF o.in_form_block /\ o.perl_block_stack = <<>>
    THEN [o EXCEPT !.in_form_block = FALSE,
                   !.current_indent = Max(0, @ - o.indent_size)]
    ELSE IF o.in_content_block /\ o.perl_block_stack = <<>>
    THEN [o EXCEPT !.in_content_block = FALSE,
                   !.current_indent = Max(0, @ - o.indent_size)]
    ELSE IF o.perl_block_stack # <<>>
    THEN [o EXCEPT !.current_indent = Top(o.perl_block_stack),
                   !.perl_block_stack = Pop(@)]
    ELSE o

\* BraceDirective with one step taken off current_indent when the directive
\* stack is empty.
BraceDirectiveDedent(o) ==
    IF o.perl_block_stack # <<>>
    THEN [o EXCEPT !.current_indent = Top(o.perl_block_stack),
                   !.perl_block_stack = Pop(@)]
    ELSE [o EXCEPT !.current_indent = Max(0, @ - o.indent_size)]

\* The `% }` branch of _process_mojo_command_line, before the line is emitted.
BraceDirective(o) ==
    IF o.perl_block_stack # <<>>
    THEN [o EXCEPT !.current_indent = Top(o.perl_block_stack),
                   !.perl_block_stack = Pop(@)]
    ELSE o

\* _process_mojo_command_line with stripped the line after the sigil spacing
MojoCommand(o, stripped) ==
    IF content_block_start_pattern(stripped)
    THEN [Emit(o, o.current_indent, stripped) EXCEPT
              !.in_content_block = TRUE,
              !.current_indent = @ + o.indent_size]
    ELSE IF form_block_start_pattern(stripped)
    THEN [Emit(o, o.current_indent, stripped) EXCEPT
              !.in_form_block = TRUE,
              !.current_indent = @ + o.indent_size]
    ELSE IF perl_block_start_pattern(stripped)
    THEN [Emit(o, o.current_indent, stripped) EXCEPT
              !.perl_block_stack = Append(@, o.current_indent),
              !.current_indent = @ + o.indent_size]
    ELSE IF perl_block_end_pattern(stripped)
    THEN Emit(BraceDirective(o), BraceDirective(o).current_indent, stripped)
    ELSE IF perl_end_pattern(stripped)
    THEN Emit(EndDirective(o), EndDirective(o).current_indent, stripped)
    ELSE Emit(o, o.current_indent, stripped)

\* _process_mojo_command_line
ProcessMojoCommandLine(o, line) == MojoCommand(o, SigilSpace(LStrip(line)))

\* The paragraph base indent of the <br></span></p> case: the position of the
\* first p on the tag stack times the step, 0 if there is none.
RECURSIVE FirstPBase(_, _, _)
FirstPBase(stack, p, size) ==
    IF p > Len(stack) THEN 0
    ELSE IF Lower(stack[p]) = "p" THEN (p - 1) * size
    ELSE FirstPBase(stack, p + 1, size)

ParagraphBaseIndent(o) ==
    IF FirstPBase(o.html_tag_stack, 1, o.indent_size) = 0
    THEN Max(0, o.current_indent - 2 * o.indent_size)
    ELSE FirstPBase(o.html_tag_stack, 1, o.indent_size)

\* re.split(r'(</span>\s+</p>)', stripped): parts[0] + parts[1], the text up to
\* the end of the first </span>, whitespace, </p>.
RECURSIVE UpToSpanSpaceP(_, _)
UpToSpanSpaceP(s, p) ==
    IF p > Len(s) THEN s
    ELSE IF /\ s[p] = C("span")
            /\ SkipWs(s, p + 1) > p + 1
            /\ SkipWs(s, p + 1) <= Len(s)
            /\ s[SkipWs(s, p + 1)] = C("p")
    THEN SubSeq(s, 1, SkipWs(s, p + 1))
    ELSE UpToSpanSpaceP(s, p + 1)

\* if x in stack: stack.remove(x)
RemoveIfPresent(stack, x) == IF InSeq(x, stack) THEN RemoveFirst(stack, x) ELSE stack

\* The <br></span></p> case of _process_html_line.
BrSpanPLine(o, stripped) ==
    [Emit(o, ParagraphBaseIndent(o),
          IF br_span_space_p_pattern(stripped)
          THEN UpToSpanSpaceP(stripped, 1)
          ELSE stripped)
     EXCEPT !.html_tag_stack = RemoveIfPresent(RemoveIfPresent(@, "span"), "p"),
            !.current_indent = ParagraphBaseIndent(o)]

\* stack.remove(tag) under `if tag.lower() in [t.lower() for t in stack]`:
\* list.remove compares the names as written and raises ValueError when no
\* entry equals tag.
RemoveTag(o, tag) ==
    IF InSeq(tag, o.html_tag_stack)
    THEN [o EXCEPT !.html_tag_stack = RemoveFirst(@, tag)]
    ELSE [o EXCEPT !.exc = "ValueError"]

\* The working indent of the <br> + closing tag case.
RECURSIVE BrIndentLevel(_, _, _)
BrIndentLevel(o, tags, level) ==
    IF tags = <<>> THEN level
    ELSE BrIndentLevel(o, Tail(tags),
             IF /\ InSeq(Lower(Head(tags)), minimal_indent_tags)
                /\ InSeq(Lower(Head(tags)), LowerAll(o.html_tag_stack))
             THEN Max(0, level - (o.indent_size \div 2))
             ELSE level)

\* The loop that updates the tag stack in the <br> + closing tag case.
RECURSIVE BrRemoveLoop(_, _)
BrRemoveLoop(o, tags) ==
    IF tags = <<>> \/ o.exc # "none" THEN o
    ELSE BrRemoveLoop(
             IF InSeq(Lower(Head(tags)), LowerAll(o.html_tag_stack))
             THEN RemoveTag(o, Head(tags))
             ELSE o,
             Tail(tags))

\* The <br> + closing tag case of _process_html_line.
BrCloseLine(o, stripped) ==
    BrRemoveLoop(
        Emit(o, BrIndentLevel(o, CloseTags(stripped), o.current_indent), stripped),
        CloseTags(stripped))

\* _contains_only_non_indenting_tags: what is left of the line without the tags
\* named tag.
RECURSIVE WithoutTag(_, _)
WithoutTag(s, tag) ==
    IF s = <<>> THEN <<>>
    ELSE (IF IsAnyTagNamed(Head(s), tag) THEN <<>> ELSE <<Head(s)>>)
         \o WithoutTag(Tail(s), tag)

\* _contains_only_non_indenting_tags
ContainsOnlyNonIndentingTags(line) ==
    \E x \in 1..Len(non_indenting_tags) :
        /\ \E p \in 1..Len(line) : IsTagNamed(line[p], non_indenting_tags[x])
        /\ \/ Strip(WithoutTag(line, non_indenting_tags[x])) = <<>>
           \/ Strip(WithoutTag(line, non_indenting_tags[x])) = <<C("span")>>
           \/ Strip(WithoutTag(line, non_indenting_tags[x])) = <<C("p")>>
           \/ InSeq(C("span"), WithoutTag(line, non_indenting_tags[x]))

\* PopStep without the floor at zero.
PopStepNoFloor(o) ==
    IF InSeq(Lower(Top(o.html_tag_stack)), non_indenting_tags)
    THEN o.current_indent
    ELSE o.current_indent - o.indent_size

\* One pop of the "multiple closing tags" case: the indent after it.
PopStep(o) ==
    IF InSeq(Lower(Top(o.html_tag_stack)), non_indenting_tags)
    THEN o.current_indent
    ELSE Max(0, o.current_indent - o.indent_size)

\* PopLoop that pops once however many closing tags the line has.
PopLoopOnce(o, n) ==
    IF n = 0 THEN o
    ELSE [o EXCEPT !.html_tag_stack = Pop(@), !.current_indent = PopStep(o)]

\* The blind pops of the "multiple closing tags" case.
RECURSIVE PopLoop(_, _)
PopLoop(o, n) ==
    IF n = 0 THEN o
    ELSE PopLoop([o EXCEPT !.html_tag_stack = Pop(@), !.current_indent = PopStep(o)],
                 n - 1)

\* The "multiple closing tags" case of _process_html_line.
MultiCloseLine(o, stripped) ==
    IF Len(CloseTags(stripped)) > 1 /\ o.html_tag_stack # <<>>
    THEN Emit(PopLoop(o, Min(Len(CloseTags(stripped)), Len(o.html_tag_stack))),
              PopLoop(o, Min(Len(CloseTags(stripped)), Len(o.html_tag_stack))).current_indent,
              stripped)
    ELSE Emit(o, o.current_indent, stripped)

\* The decrement for one closing tag of the generic case.
CloseStep(o, tag) ==
    IF InSeq(Lower(tag), minimal_indent_tags)
    THEN Max(0, o.current_indent - (o.indent_size \div 2))
    ELSE Max(0, o.current_indent - o.indent_size)

\* The loop over close_tags of the generic case.
RECURSIVE CloseLoop(_, _)
CloseLoop(o, tags) ==
    IF tags = <<>> \/ o.exc # "none" THEN o
    ELSE CloseLoop(
             IF InSeq(Lower(Head(tags)), non_indenting_tags) THEN o
             ELSE IF InSeq(Lower(Head(tags)), LowerAll(o.html_tag_stack))
             THEN [RemoveTag(o, Head(tags)) EXCEPT
                       !.current_indent =
                           IF RemoveTag(o, Head(tags)).exc # "none" THEN @
                           ELSE CloseStep(o, Head(tags))]
             ELSE o,
             Tail(tags))

\* The increment for one opening tag of the generic case.
OpenStep(o, tag) ==
    IF InSeq(Lower(tag), minimal_indent_tags)
    THEN o.current_indent + (o.indent_size \div 2)
    ELSE o.current_indent + o.indent_size

\* OpenLoop without the test for the non-indenting tags.
RECURSIVE OpenLoopPushAll(_, _, _)
OpenLoopPushAll(o, tags, self_closing) ==
    IF tags = <<>> THEN o
    ELSE OpenLoopPushAll(
             IF ~InSeq(Head(tags), self_closing)
             THEN [o EXCEPT !.html_tag_stack = Append(@, Head(tags)),
                            !.current_indent = OpenStep(o, Head(tags))]
             ELSE o,
             Tail(tags), self_closing)

\* The loop over open_tags of the generic case.
RECURSIVE OpenLoop(_, _, _)
OpenLoop(o, tags, self_closing) ==
    IF tags = <<>> THEN o
    ELSE OpenLoop(
             IF InSeq(Lower(Head(tags)), non_indenting_tags) THEN o
             ELSE IF ~InSeq(Head(tags), self_closing)
             THEN [o EXCEPT !.html_tag_stack = Append(@, Head(tags)),
                            !.current_indent = OpenStep(o, Head(tags))]
             ELSE o,
             Tail(tags), self_closing)

\* GenericLine with the loop over the opening tags run before the line is
\* emitted.
GenericLineOpenFirst(o, stripped) ==
    IF CloseLoop(o, CloseTags(stripped)).exc # "none"
    THEN CloseLoop(o, CloseTags(stripped))
    ELSE Emit(OpenLoop(CloseLoop(o, CloseTags(stripped)),
                       OpenTags(stripped), SelfClosingTags(stripped)),
              OpenLoop(CloseLoop(o, CloseTags(stripped)),
                       OpenTags(stripped), SelfClosingTags(stripped)).current_indent,
              stripped)

\* The generic case of _process_html_line.
GenericLine(o, stripped) ==
    IF CloseLoop(o, CloseTags(stripped)).exc # "none"
    THEN CloseLoop(o, CloseTags(stripped))
    ELSE OpenLoop(
             Emit(CloseLoop(o, CloseTags(stripped)),
                  CloseLoop(o, CloseTags(stripped)).current_indent, stripped),
             OpenTags(stripped), SelfClosingTags(stripped))

\* The cases of _process_html_line after the embedded-Perl lines.
MarkupLine(o, stripped) ==
    IF br_span_p_pattern(stripped) \/ br_span_space_p_pattern(stripped)
    THEN BrSpanPLine(o, stripped)
    ELSE IF br_with_close_tags_pattern(stripped)
    THEN BrCloseLine(o, stripped)
    ELSE IF ContainsOnlyNonIndentingTags(stripped)
    THEN Emit(o, o.current_indent, stripped)
    ELSE IF multiple_close_tags_pattern(stripped)
    THEN MultiCloseLine(o, stripped)
    ELSE GenericLine(o, stripped)

\* _process_html_line
ProcessHtmlLine(o, line) ==
    IF Strip(line) # <<>> /\ IsTxt(Head(Strip(line)), "<%")
    THEN [o EXCEPT !.output_lines = Append(@, line),
                   !.indents = Append(@, LeadingSpaces(line))]
    ELSE IF Strip(line) = <<T("%"), T(">")>>
    THEN [o EXCEPT !.output_lines = Append(@, <<T("%"), T(">")>>),
                   !.indents = Append(@, 0)]
    ELSE MarkupLine(o, LStrip(line))

\* ProcessLine with the blank line kept whatever remove_blank_lines says.
ProcessLineKeepBlank(o, line) ==
    IF Strip(line) = <<>>
    THEN [o EXCEPT !.output_lines = Append(@, <<>>), !.indents = Append(@, 0)]
    ELSE IF IsMojoCommandLine(line)
    THEN ProcessMojoCommandLine(o, line)
    ELSE ProcessHtmlLine(o, line)

\* The body of the loop of format() for one line.
ProcessLine(o, line) ==
    IF Strip(line) = <<>>
    THEN (IF ~o.remove_blank_lines
          THEN [o EXCEPT !.output_lines = Append(@, <<>>), !.indents = Append(@, 0)]
          ELSE o)
    ELSE IF IsMojoCommandLine(line)
    THEN ProcessMojoCommandLine(o, line)
    ELSE ProcessHtmlLine(o, line)

-----------------------------------------------------------------------------
(* Pass 3: the closing-tag splitter *)

\* The start of the leftmost match of multiple_closing_tags_pattern in s.
FirstAdjacentClose(s) ==
    CHOOSE p \in 1..Len(s) :
        /\ AdjacentCloseAt(s, p)
        /\ \A q \in 1..(p - 1) : ~AdjacentCloseAt(s, q)

\* The while loop that cuts a line before the second tag of every match.
RECURSIVE SplitParts(_)
SplitParts(current) ==
    IF multiple_closing_tags_pattern(current)
    THEN <<SubSeq(current, 1, SkipWs(current, FirstAdjacentClose(current) + 1) - 1)>>
         \o SplitParts(SubSeq(current, SkipWs(current, FirstAdjacentClose(current) + 1),
                              Len(current)))
    ELSE IF current # <<>> THEN <<current>>
    ELSE <<>>

\* PartIndent without the step back for a closing tag.
PartIndentBase(j, part, base_indent, size) == base_indent

\* The indentation of part j (counted from 0) of a line split at base_indent.
PartIndent(j, part, base_indent, size) ==
    IF j > 0 /\ Strip(part) # <<>> /\ IsCloseTag(Head(Strip(part)))
    THEN Max(0, base_indent - size)
    ELSE base_indent

\* The for loop that appends the parts of one line.
SplitLine(line, size) ==
    [j \in 1..Len(SplitParts(line)) |->
        Spaces(PartIndent(j - 1, SplitParts(line)[j], LeadingSpaces(line), size))
        \o Strip(SplitParts(line)[j])]

\* One iteration of the loop of _postprocess_closing_tags: the lines appended
\* to result_lines and the new value of in_perl_block.
PostprocessLine(line, in_block, size) ==
    IF Strip(line) = <<T("<%")>>
    THEN [out |-> <<line>>, in_block |-> TRUE]
    ELSE IF Strip(line) = <<T("%"), T(">")>>
    THEN [out |-> <<line>>, in_block |-> FALSE]
    ELSE IF in_block
    THEN [out |-> <<line>>, in_block |-> TRUE]
    ELSE IF multiple_closing_tags_pattern(line)
    THEN [out |-> SplitLine(line, size), in_block |-> FALSE]
    ELSE [out |-> <<line>>, in_block |-> FALSE]

-----------------------------------------------------------------------------
(* Pass 1: the embedded-Perl normalizer *)

IsSpace(t) == t.k \in {"ws", "nl"}

\* str.strip() on text that holds line breaks
RECURSIVE StripAll(_)
StripAll(s) ==
    IF s # <<>> /\ IsSpace(Head(s)) THEN StripAll(Tail(s))
    ELSE IF s # <<>> /\ IsSpace(s[Len(s)]) THEN StripAll(SubSeq(s, 1, Len(s) - 1))
    ELSE s

\* The first position at or after p where the end delimiter %> starts (0 if none).
RECURSIVE FindEnd(_, _)
FindEnd(s, p) ==
    IF p + 1 > Len(s) THEN 0
    ELSE IF IsTxt(s[p], "%") /\ IsTxt(s[p + 1], ">") THEN p
    ELSE FindEnd(s, p + 1)

\* The first position at or after p where <%\s*(.*?)\s*%> matches (0 if none).
RECURSIVE FindStart(_, _)
FindStart(s, p) ==
    IF p > Len(s) THEN 0
    ELSE IF IsTxt(s[p], "<%") /\ FindEnd(s, p + 1) > 0 THEN p
    ELSE FindStart(s, p + 1)

\* The simple formatter that replaces perltidy when it fails: the loop over the
\* lines of the block, with current_indent the local indentation.
RECURSIVE SimpleFormat(_, _, _)
SimpleFormat(ls, current_indent, size) ==
    IF ls = <<>> THEN <<>>
    ELSE IF Strip(Head(ls)) = <<>> THEN SimpleFormat(Tail(ls), current_indent, size)
    ELSE
      LET stripped == LStrip(Head(ls))
          first == Head(stripped).n
          last == stripped[Len(stripped)].n
          before == IF first \in {"}", ");"}
                    THEN Max(size, current_indent - size)
                    ELSE current_indent
          opened == IF last = "{" \/ (last = "(" /\ first \notin {")", ");"})
                    THEN before + size
                    ELSE before
          after == IF last = ");" /\ first # "("
                   THEN Max(size, opened - size)
                   ELSE opened
      IN <<Spaces(before) \o stripped>> \o SimpleFormat(Tail(ls), after, size)

\* What a successful perltidy run returns (formatted_code.strip()): the
\* statements of the block, one per line, at the indentation of top-level code.
RECURSIVE Tidy(_)
Tidy(ls) ==
    IF ls = <<>> THEN <<>>
    ELSE IF Strip(Head(ls)) = <<>> THEN Tidy(Tail(ls))
    ELSE <<Strip(Head(ls))>> \o Tidy(Tail(ls))

\* format_perl_code without the padding of the single-line form.
FormatPerlCodeUnpadded(perl_code, tool_ok, size) ==
    IF perl_code = <<>>
    THEN <<T("<%"), NL, T("%"), T(">")>>
    ELSE <<T("<%")>> \o perl_code \o <<T("%"), T(">")>>

\* format_perl_code: the replacement of one match, perl_code being match.group(1)
FormatPerlCode(perl_code, tool_ok, size) ==
    IF perl_code = <<>>
    THEN <<T("<%"), NL, T("%"), T(">")>>
    ELSE IF Len(SplitLines(perl_code)) <= 1
    THEN <<T("<%"), W>> \o perl_code \o <<W, T("%"), T(">")>>
    ELSE <<T("<%"), NL>>
         \o Join(IF tool_ok THEN Tidy(SplitLines(perl_code))
                 ELSE SimpleFormat(SplitLines(perl_code), size, size))
         \o <<NL, T("%"), T(">")>>

\* pattern.sub(format_perl_code, content)
RECURSIVE PreprocessEmbeddedPerl(_, _, _)
PreprocessEmbeddedPerl(s, tool_ok, size) ==
    IF FindStart(s, 1) = 0 THEN s
    ELSE SubSeq(s, 1, FindStart(s, 1) - 1)
         \o FormatPerlCode(
                StripAll(SubSeq(s, FindStart(s, 1) + 1,
                                FindEnd(s, FindStart(s, 1) + 1) - 1)),
                tool_ok, size)
         \o PreprocessEmbeddedPerl(
                SubSeq(s, FindEnd(s, FindStart(s, 1) + 1) + 2, Len(s)), tool_ok, size)

\* The number of multi-line blocks: what perltidy_block_count counts.
RECURSIVE MultiLineBlocks(_)
MultiLineBlocks(s) ==
    IF FindStart(s, 1) = 0 THEN 0
    ELSE (IF Len(SplitLines(StripAll(SubSeq(s, FindStart(s, 1) + 1,
                                           FindEnd(s, FindStart(s, 1) + 1) - 1)))) > 1
          THEN 1 ELSE 0)
         + MultiLineBlocks(SubSeq(s, FindEnd(s, FindStart(s, 1) + 1) + 2, Len(s)))

-----------------------------------------------------------------------------
(* The external tool *)

\* What one run of perltidy can do: exit with status 0 and its output file
\* written ("ok"), exit with another status, exit with status 0 and no output
\* file, fail to start (subprocess.run raises), leave an output file that
\* cannot be read (open or read raises), or never exit.
ToolOutcomes == {"ok", "nonzero", "no_output", "unavailable", "read_error", "hang"}

\* The files outside the formatter: the temporary files that exist, the number
\* of names NamedTemporaryFile has handed out, and the inspection files.
NoFiles == [tmp_files |-> {}, names |-> 0, saved_files |-> {}]

\* _save_perltidy_output that lets a failed write escape.
SavePerltidyOutputRaising(fs, dir, block_id) ==
    [fs |-> fs, raised |-> dir = "unwritable"]

\* _save_perltidy_output: the two inspection files of the block are written;
\* an exception (the directory cannot be made or written) is logged and
\* swallowed.
SavePerltidyOutput(fs, dir, block_id) ==
    [fs |-> IF dir = "writable"
            THEN [fs EXCEPT !.saved_files =
                      @ \cup {<<block_id, "original">>, <<block_id, "formatted">>}]
            ELSE fs,
     raised |-> FALSE]

\* A temporary name made from the block number of the formatter.
TempNameFromBlock(fs, block_id) == block_id

\* tempfile.NamedTemporaryFile(delete=False): a name no other file has had.
TempName(fs, block_id) == fs.names + 1

\* _run_perltidy without its `except Exception`.
RunPerltidyUncaught(fs, dir, block_id, outcome) ==
    [returns |-> TRUE, value |-> IF outcome = "ok" THEN "formatted" ELSE "None",
     exc |-> IF outcome \in {"unavailable", "read_error"} THEN "Exception" ELSE "none",
     fs |-> fs]

\* _run_perltidy(perl_code, block_id): whether the call returns, the value it
\* returns ("None" or the formatted code), the exception it lets escape and
\* the files it leaves.
RunPerltidy(fs, dir, block_id, outcome) ==
    LET input_file == <<TempName(fs, block_id), "in">>
        output_file == <<TempName(fs, block_id), "tidy">>
        created == [fs EXCEPT !.tmp_files = @ \cup {input_file}, !.names = @ + 1]
        written == [created EXCEPT !.tmp_files = @ \cup {output_file}]
        saved == IF dir # "unset" THEN SavePerltidyOutput(written, dir, block_id)
                 ELSE [fs |-> written, raised |-> FALSE]
    IN CASE outcome = "hang" ->
              [returns |-> FALSE, value |-> "None", exc |-> "none", fs |-> created]
         [] outcome \in {"nonzero", "no_output", "unavailable"} ->
              [returns |-> TRUE, value |-> "None", exc |-> "none", fs |-> created]
         [] outcome = "read_error" ->
              [returns |-> TRUE, value |-> "None", exc |-> "none", fs |-> written]
         [] outcome = "ok" ->
              IF saved.raised
              THEN [returns |-> TRUE, value |-> "None", exc |-> "none", fs |-> saved.fs]
              ELSE [returns |-> TRUE, value |-> "formatted", exc |-> "none",
                    fs |-> [saved.fs EXCEPT !.tmp_files = @ \ {input_file, output_file}]]

\* One call of format_perl_code by pattern.sub: st.out is the text produced
\* so far, st.rest the text not yet searched, st.tool what the coming perltidy
\* runs do, st.count perltidy_block_count, st.state "running", "blocked" (in
\* subprocess.run) or "raised".
PreStep(st, o) ==
    LET start == FindStart(st.rest, 1)
        end == FindEnd(st.rest, start + 1)
        perl_code == StripAll(SubSeq(st.rest, start + 1, end - 1))
        before == st.out \o SubSeq(st.rest, 1, start - 1)
        after == SubSeq(st.rest, end + 2, Len(st.rest))
        run == RunPerltidy(st.fs, o.perltidy_output_dir, st.count + 1, Head(st.tool))
    IN IF Len(SplitLines(perl_code)) <= 1
       THEN [st EXCEPT !.out = before \o FormatPerlCode(perl_code, FALSE, o.indent_size),
                       !.rest = after]
       ELSE IF ~run.returns
       THEN [st EXCEPT !.state = "blocked", !.fs = run.fs, !.count = @ + 1]
       ELSE IF run.exc # "none"
       THEN [st EXCEPT !.state = "raised", !.fs = run.fs, !.count = @ + 1]
       ELSE [st EXCEPT !.out = before \o FormatPerlCode(perl_code, run.value # "None",
                                                        o.indent_size),
                       !.rest = after,
                       !.tool = Tail(@),
                       !.fs = run.fs,
                       !.count = @ + 1]

RECURSIVE PreLoop(_, _)
PreLoop(st, o) ==
    IF st.state # "running" \/ FindStart(st.rest, 1) = 0 THEN st
    ELSE PreLoop(PreStep(st, o), o)

\* _preprocess_embedded_perl(content) on formatter o with the files fs, when
\* the perltidy runs do what outcomes says: the state pattern.sub ends in.
PreprocessRun(s, outcomes, o, fs) ==
    PreLoop([out |-> <<>>, rest |-> s, tool |-> outcomes, fs |-> fs,
             count |-> o.perltidy_block_count, state |-> "running"], o)

-----------------------------------------------------------------------------
(* format() as a function of its input *)

\* MojoTemplateFormatter(indent_size) with remove_blank_lines set by the
\* caller, as format_mojolicious_template does; exc is the exception that a
\* handler has raised, indents the n of each ' ' * n of pass 2.
\* perltidy_output_dir is "unset" (None), "writable" or "unwritable".
NewFormatter(size, rb) ==
    [indent_size |-> size,
     current_indent |-> 0,
     output_lines |-> <<>>,
     perl_block_stack |-> <<>>,
     html_tag_stack |-> <<>>,
     in_form_block |-> FALSE,
     in_content_block |-> FALSE,
     remove_blank_lines |-> rb,
     perltidy_output_dir |-> "unset",
     perltidy_block_count |-> 0,
     indents |-> <<>>,
     exc |-> "none"]

\* A reset that keeps the indent, the stacks and the flags of the earlier call.
ResetFormatterOutputOnly(o) ==
    [o EXCEPT !.output_lines = <<>>, !.indents = <<>>]

\* The assignments of format() before its loop.
ResetFormatter(o) ==
    [o EXCEPT !.output_lines = <<>>,
              !.current_indent = 0,
              !.perl_block_stack = <<>>,
              !.html_tag_stack = <<>>,
              !.in_form_block = FALSE,
              !.in_content_block = FALSE,
              !.indents = <<>>]

\* The loop of format() over lines; an exception ends it.
RECURSIVE Pass2(_, _)
Pass2(o, ls) ==
    IF ls = <<>> \/ o.exc # "none" THEN o
    ELSE Pass2(ProcessLine(o, Head(ls)), Tail(ls))

\* _postprocess_closing_tags over all of output_lines.
RECURSIVE Postprocess(_, _, _)
Postprocess(ls, in_block, size) ==
    IF ls = <<>> THEN <<>>
    ELSE PostprocessLine(Head(ls), in_block, size).out
         \o Postprocess(Tail(ls), PostprocessLine(Head(ls), in_block, size).in_block, size)

\* format(content) on a fresh formatter: the exception raised ("none" if none)
\* and the text returned.
Format(text, size, rb, tool_ok) ==
    LET o == Pass2(NewFormatter(size, rb),
                   SplitLines(PreprocessEmbeddedPerl(text, tool_ok, size)))
    IN [exc |-> o.exc,
        text |-> IF o.exc # "none" THEN <<>>
                 ELSE Join(Postprocess(o.output_lines, FALSE, size))]

\* format(text) on formatter o, in whatever state an earlier call left it,
\* when the perltidy runs do what outcomes says: how pass 1 ended, the lines it
\* handed to pass 2, the exception raised and the text returned.
FormatRun(text, o, outcomes) ==
    LET st == PreprocessRun(text, outcomes, o, NoFiles)
        ls == SplitLines(st.out \o st.rest)
        o2 == Pass2([ResetFormatter(o) EXCEPT !.perltidy_block_count = st.count], ls)
    IN [state |-> st.state,
        lines |-> ls,
        exc |-> o2.exc,
        text |-> IF o2.exc # "none" THEN <<>>
                 ELSE Join(Postprocess(o2.output_lines, FALSE, o.indent_size))]

-----------------------------------------------------------------------------
(* format() step by step *)

\* First pass: content = self._preprocess_embedded_perl(content), then the
\* split into lines and the reset of the formatter.  A perltidy run that never
\* exits leaves format() blocked in subprocess.run.
Preprocess ==
    /\ pc = "start"
    /\ LET st == PreprocessRun(content, tool, self, os)
       IN /\ lines' = IF st.state = "running" THEN SplitLines(st.out \o st.rest) ELSE <<>>
          /\ os' = st.fs
          /\ self' = IF st.state = "running"
                     THEN [ResetFormatter(self) EXCEPT !.perltidy_block_count = st.count]
                     ELSE [self EXCEPT !.perltidy_block_count = st.count,
                                       !.exc = IF st.state = "raised" THEN "Exception"
                                               ELSE @]
          /\ pc' = CASE st.state = "running" -> "pass2"
                     [] st.state = "blocked" -> "blocked"
                     [] st.state = "raised" -> "raised"
    /\ i' = 0
    /\ UNCHANGED <<content, result_lines, in_perl_block, pi, origin, tool, reused, par, web>>

\* Pass2Step without `i += 1`.
Pass2StepSameLine ==
    /\ pc = "pass2"
    /\ i < Len(lines)
    /\ self' = ProcessLine(self, lines[i + 1])
    /\ i' = i
    /\ pc' = IF self'.exc # "none" THEN "raised" ELSE "pass2"
    /\ UNCHANGED <<content, lines, result_lines, in_perl_block, pi, origin, tool, os,
                   reused, par, web>>

\* One iteration of `while i < len(lines)`.
Pass2Step ==
    /\ pc = "pass2"
    /\ i < Len(lines)
    /\ self' = ProcessLine(self, lines[i + 1])
    /\ i' = i + 1
    /\ pc' = IF self'.exc # "none" THEN "raised" ELSE "pass2"
    /\ UNCHANGED <<content, lines, result_lines, in_perl_block, pi, origin, tool, os,
                   reused, par, web>>

\* The loop has ended: _postprocess_closing_tags starts.
StartPost ==
    /\ pc = "pass2"
    /\ i = Len(lines)
    /\ pc' = "post"
    /\ result_lines' = <<>>
    /\ origin' = <<>>
    /\ in_perl_block' = FALSE
    /\ pi' = 0
    /\ UNCHANGED <<content, lines, i, self, tool, os,
                   reused, par, web>>

\* One iteration of the loop of _postprocess_closing_tags.
PostStep ==
    /\ pc = "post"
    /\ pi < Len(self.output_lines)
    /\ LET r == PostprocessLine(self.output_lines[pi + 1], in_perl_block,
                                self.indent_size)
       IN /\ result_lines' = result_lines \o r.out
          /\ origin' = origin \o [x \in 1..Len(r.out) |-> pi + 1]
          /\ in_perl_block' = r.in_block
    /\ pi' = pi + 1
    /\ UNCHANGED <<pc, content, lines, i, self, tool, os,
                   reused, par, web>>

\* self.output_lines = result_lines; format() returns '\n'.join(self.output_lines).
Finish ==
    /\ pc = "post"
    /\ pi = Len(self.output_lines)
    /\ self' = [self EXCEPT !.output_lines = result_lines]
    /\ pc' = "done"
    /\ UNCHANGED <<content, lines, i, result_lines, in_perl_block, pi, origin, tool, os,
                   reused, par, web>>

Next == Preprocess \/ Pass2Step \/ StartPost \/ PostStep \/ Finish

\* format() has returned and is called once more on the same formatter object,
\* with one of docs.
Reuse(docs, outcomes) ==
    /\ pc = "done"
    /\ reused = <<>>
    /\ reused' = <<self>>
    /\ content' \in docs
    /\ tool' \in [1..MultiLineBlocks(content') -> outcomes]
    /\ pc' = "start"
    /\ UNCHANGED <<lines, i, self, result_lines, in_perl_block, pi, origin, os, par, web>>

\* The text format() returns.
Returned == Join(self.output_lines)

-----------------------------------------------------------------------------
(* Two calls of format_mojolicious_template, interleaved *)

\* Each call c has its own formatter object and its own locals, in par[c]; the
\* files (os) are the one thing both reach.  begun, overlapped and names record
\* that the call has taken a step, that it took one while the other call was
\* under way, and the temporary names it was given.
NewCall(text, size, rb, outcomes) ==
    [pc |-> "start",
     content |-> text,
     tool |-> outcomes,
     self |-> NewFormatter(size, rb),
     pre |-> [out |-> <<>>, rest |-> text, tool |-> outcomes, fs |-> NoFiles,
              count |-> 0, state |-> "running"],
     lines |-> <<>>,
     i |-> 0,
     result_lines |-> <<>>,
     in_perl_block |-> FALSE,
     pi |-> 0,
     names |-> {},
     begun |-> FALSE,
     overlapped |-> FALSE]

UnderWay(call) == call.begun /\ call.pc \notin {"done", "raised", "blocked"}

\* Call c takes a step that leaves it as rec.
Stepped(c, rec) ==
    par' = [par EXCEPT ![c] = [rec EXCEPT !.begun = TRUE,
                                          !.overlapped = @ \/ UnderWay(par[3 - c])]]

\* pattern.sub calls format_perl_code for the next region of call c.
ParFormatPerlCode(c) ==
    /\ par[c].pc = "start"
    /\ par[c].pre.state = "running"
    /\ FindStart(par[c].pre.rest, 1) > 0
    /\ \E st \in {PreStep([par[c].pre EXCEPT !.fs = os], par[c].self)} :
          /\ os' = st.fs
          /\ Stepped(c, [par[c] EXCEPT
                 !.pre = [st EXCEPT !.fs = NoFiles],
                 !.pc = CASE st.state = "running" -> "start"
                          [] st.state = "blocked" -> "blocked"
                          [] st.state = "raised" -> "raised",
                 !.names = IF st.count > par[c].pre.count
                           THEN @ \cup {TempName(os, st.count)}
                           ELSE @])

\* pattern.sub has returned in call c: the split into lines and the reset.
ParStartPass2(c) ==
    /\ par[c].pc = "start"
    /\ par[c].pre.state = "running"
    /\ FindStart(par[c].pre.rest, 1) = 0
    /\ Stepped(c, [par[c] EXCEPT
           !.lines = SplitLines(par[c].pre.out \o par[c].pre.rest),
           !.self = [ResetFormatter(@) EXCEPT !.perltidy_block_count = par[c].pre.count],
           !.i = 0,
           !.pc = "pass2"])
    /\ UNCHANGED os

ParPass2Step(c) ==
    /\ par[c].pc = "pass2"
    /\ par[c].i < Len(par[c].lines)
    /\ \E o \in {ProcessLine(par[c].self, par[c].lines[par[c].i + 1])} :
          Stepped(c, [par[c] EXCEPT !.self = o,
                                    !.i = @ + 1,
                                    !.pc = IF o.exc # "none" THEN "raised" ELSE "pass2"])
    /\ UNCHANGED os

ParStartPost(c) ==
    /\ par[c].pc = "pass2"
    /\ par[c].i = Len(par[c].lines)
    /\ Stepped(c, [par[c] EXCEPT !.pc = "post", !.result_lines = <<>>,
                                 !.in_perl_block = FALSE, !.pi = 0])
    /\ UNCHANGED os

ParPostStep(c) ==
    /\ par[c].pc = "post"
    /\ par[c].pi < Len(par[c].self.output_lines)
    /\ \E r \in {PostprocessLine(par[c].self.output_lines[par[c].pi + 1],
                                  par[c].in_perl_block, par[c].self.indent_size)} :
          Stepped(c, [par[c] EXCEPT !.result_lines = @ \o r.out,
                                    !.in_perl_block = r.in_block,
                                    !.pi = @ + 1])
    /\ UNCHANGED os

ParFinish(c) ==
    /\ par[c].pc = "post"
    /\ par[c].pi = Len(par[c].self.output_lines)
    /\ Stepped(c, [par[c] EXCEPT !.self.output_lines = par[c].result_lines, !.pc = "done"])
    /\ UNCHANGED os

NextParallel ==
    /\ \E c \in {1, 2} :
          \/ ParFormatPerlCode(c)
          \/ ParStartPass2(c)
          \/ ParPass2Step(c)
          \/ ParStartPost(c)
          \/ ParPostStep(c)
          \/ ParFinish(c)
    /\ UNCHANGED <<pc, content, lines, i, self, result_lines, in_perl_block, pi, origin,
                   tool, reused, web>>

-----------------------------------------------------------------------------
(* The hosting layer: src/website.py *)

\* API_TOKEN, the token the server holds.
API_TOKEN == "token"

\* The header values a request can carry for Authorization, as the text before
\* the token and the token: none, the right token, a wrong token, the right
\* token without `Bearer `, and with `bearer ` in lower case.
AuthorizationHeaders ==
    { <<>>, <<"Bearer ", API_TOKEN>>, <<"Bearer ", "other">>, <<"", API_TOKEN>>,
      <<"bearer ", API_TOKEN>> }

\* The condition of require_api_token under which the view is called.
TokenAccepted(auth) == auth # <<>> /\ auth[1] = "Bearer " /\ auth[2] = API_TOKEN

\* @limiter.limit("5/minute"): the requests of one client that an endpoint
\* serves in one minute.
RateLimit == 5

Endpoints == {"/api/format", "/api/format_ajax"}

\* A request: its endpoint, its Authorization header, whether its body is JSON,
\* what its body holds and what the formatter process does when it is run.
\* The body: "ok" a printable text; "empty" no text or only whitespace;
\* "unprintable" a character outside printable ASCII; "not_dict" JSON that is
\* not an object; "not_string" a text that is not a string; "oversized" more
\* than 1MB; "surrogate" a string with a lone surrogate (JSON "\ud800").
Requests ==
    [endpoint : Endpoints,
     auth : AuthorizationHeaders,
     is_json : BOOLEAN,
     text : {"ok", "empty", "unprintable", "not_dict", "not_string", "oversized",
             "surrogate"},
     mojofmt : {"ok", "fails", "timeout", "no_script", "unreadable_output"}]

\* Exceptions: the class and str(e).
NoException == [type |-> "none", text |-> ""]
ValueError(text) == [type |-> "ValueError", text |-> text]
RuntimeError(text) == [type |-> "RuntimeError", text |-> text]

\* What str.encode('utf-8') raises on a lone surrogate: a subclass of
\* ValueError whose text names the codec, the character and its position.
UnicodeEncodeError ==
    [type |-> "UnicodeEncodeError",
     text |-> "'utf-8' codec can't encode character '\\ud800' in position 0: surrogates not allowed"]

IsValueError(e) == e.type \in {"ValueError", "UnicodeEncodeError"}

\* validate_api_input(data): the exception it raises, NoException when it
\* returns True.
ValidateApiInput(text) ==
    IF text = "not_dict" THEN ValueError("Invalid data format")
    ELSE IF text = "not_string" THEN ValueError("input_text must be a string")
    ELSE IF text = "empty" THEN ValueError("input_text cannot be empty")
    ELSE IF text = "surrogate" THEN UnicodeEncodeError
    ELSE IF text = "oversized" THEN ValueError("input_text too large")
    ELSE NoException

\* validate_input_text(text), for a text that validate_api_input accepted.
ValidateInputText(text) == text \notin {"oversized", "unprintable"}

\* run_mojofmt(input_text): the exception it raises (NoException when it
\* returns the formatted text) and the number of formatter processes started.
RunMojofmt(text, mojofmt) ==
    IF ~ValidateInputText(text)
    THEN [exc |-> ValueError("Invalid input text"), starts |-> 0]
    ELSE IF mojofmt = "no_script"
    THEN [exc |-> RuntimeError("Formatter script not found"), starts |-> 0]
    ELSE IF mojofmt = "timeout"
    THEN [exc |-> RuntimeError("Formatting operation timed out"), starts |-> 1]
    ELSE IF mojofmt = "fails"
    THEN [exc |-> RuntimeError("Formatting failed"), starts |-> 1]
    ELSE IF mojofmt = "unreadable_output"
    THEN [exc |-> RuntimeError("Failed to read output file"), starts |-> 1]
    ELSE [exc |-> NoException, starts |-> 1]

\* A response: the status, whether and how often run_mojofmt started the
\* formatter process, whether validate_api_input and validate_input_text had
\* both accepted the input, and the "error" of the JSON body ("" when the body
\* is the formatted text).
Response(status, starts, validated, error) ==
    [status |-> status, ran |-> starts > 0, starts |-> starts, validated |-> validated,
     error |-> error]

\* The except clauses that api_format_ajax and api_format share.
ErrorResponse(e, starts, validated) ==
    IF IsValueError(e) THEN Response(400, starts, validated, e.text)
    ELSE IF e.type = "RuntimeError" THEN Response(500, starts, validated, "Processing failed")
    ELSE Response(500, starts, validated, "Internal server error")

\* The body that api_format_ajax and api_format share.  api_format reads the
\* text with data.get before validate_api_input, which raises AttributeError
\* when the body is not an object.
FormatView(req) ==
    IF ~req.is_json THEN Response(400, 0, FALSE, "JSON body required")
    ELSE IF req.endpoint = "/api/format" /\ req.text = "not_dict"
    THEN ErrorResponse([type |-> "AttributeError", text |-> "no attribute 'get'"], 0, FALSE)
    ELSE IF ValidateApiInput(req.text) # NoException
    THEN ErrorResponse(ValidateApiInput(req.text), 0, FALSE)
    ELSE LET run == RunMojofmt(req.text, req.mojofmt)
         IN  IF run.exc # NoException
             THEN ErrorResponse(run.exc, run.starts, ValidateInputText(req.text))
             ELSE Response(200, run.starts, TRUE, "")

\* require_api_token(f): 401 unless the header is `Bearer ` and the token.
RequireApiToken(req, view) ==
    IF ~TokenAccepted(req.auth) THEN Response(401, 0, FALSE, "Unauthorized") ELSE view

\* api_format_ajax: the view alone.
ApiFormatAjax(req) == FormatView(req)

\* api_format: the view behind require_api_token.
ApiFormat(req) == RequireApiToken(req, FormatView(req))

\* The server answers request req; the rate limit of the endpoint is applied
\* before the view and its decorators.
Request(req) ==
    /\ web' = IF web.hits[req.endpoint] >= RateLimit
              THEN [web EXCEPT !.req = req, !.resp = Response(429, 0, FALSE, "Rate limit exceeded")]
              ELSE [web EXCEPT !.hits[req.endpoint] = @ + 1,
                               !.req = req,
                               !.resp = IF req.endpoint = "/api/format" THEN ApiFormat(req)
                                        ELSE ApiFormatAjax(req)]
    /\ UNCHANGED <<pc, content, lines, i, self, result_lines, in_perl_block, pi, origin,
                   tool, os, reused, par>>

\* A minute ends: the rate counters start again.
MinutePasses ==
    /\ \E ep \in Endpoints : web.hits[ep] > 0
    /\ web' = [web EXCEPT !.hits = [ep \in Endpoints |-> 0]]
    /\ UNCHANGED <<pc, content, lines, i, self, result_lines, in_perl_block, pi, origin,
                   tool, os, reused, par>>

NextWeb == (\E req \in Requests : Request(req)) \/ MinutePasses

-----------------------------------------------------------------------------
(* Documents *)

\* The indentation widths of the checked calls: the default of 4, and 2.
IndentSizes == {2, 4}

\* The documents of at most n pieces drawn from alphabet, one piece to a line.
Docs(alphabet, n) == UNION { {Join(doc) : doc \in [1..k -> alphabet]} : k \in 0..n }

\* format_mojolicious_template(content, size, rb, perltidy_output_dir = dir) is
\* called on one of docs, and each perltidy run of the call does one of outcomes.
InitCall(docs, sizes, rbs, outcomes, dirs) ==
    /\ content \in docs
    /\ \E size \in sizes, rb \in rbs, dir \in dirs :
           self = [NewFormatter(size, rb) EXCEPT !.perltidy_output_dir = dir]
    /\ tool \in [1..MultiLineBlocks(content) -> outcomes]
    /\ os = NoFiles
    /\ reused = <<>>
    /\ par = <<>>
    /\ web = <<>>
    /\ pc = "start"
    /\ lines = <<>>
    /\ i = 0
    /\ result_lines = <<>>
    /\ origin = <<>>
    /\ in_perl_block = FALSE
    /\ pi = 0

\* The same on a document of at most MaxLines lines drawn from alphabet, with
\* perltidy present or failing and no inspection directory.
InitWith(alphabet, sizes, rbs) ==
    InitCall(Docs(alphabet, MaxLines), sizes, rbs, {"ok", "nonzero"}, {"unset"})

\* Markup lines.
MarkupLines ==
    { <<O("div")>>, <<C("div")>>, <<O("DIV")>>,
      <<O("p")>>, <<O("span")>>, <<C("span")>>,
      <<O("p"), T("hi"), C("p")>>,
      <<O("br")>>,
      <<O("div"), O("div")>>, <<C("div"), C("div")>>,
      <<T("x"), O("br"), C("span")>>,
      <<T("x"), C("span"), C("p")>>,
      <<T("x")>> }

InitMarkup == InitWith(MarkupLines, IndentSizes, {TRUE})

SpecMarkup == InitMarkup /\ [][Next]_vars


\* Directive lines, with the markup lines that nest in them.
DirectiveLines ==
    { <<T("%"), W, T("if"), W, T("{")>>,
      <<T("%"), W, T("}")>>,
      <<T("%"), W, T("}"), W, T("else"), W, T("{")>>,
      <<T("%"), W, T("end")>>,
      <<T("%"), W, T("content_for"), W, T("=>"), W, T("begin")>>,
      <<T("%"), T("="), W, T("form_for"), W, T("=>"), W, T("begin")>>,
      <<T("%"), T("x")>>,
      <<O("div")>>, <<C("div")>>,
      <<O("p"), T("hi"), C("p")>>,
      <<C("span"), C("p")>> }

InitDirective == InitWith(DirectiveLines, IndentSizes, {TRUE})

SpecDirective == InitDirective /\ [][Next]_vars

\* Directive lines that open a control block, and lines that look like one.
OpenerLines ==
    { <<T("%"), W, T("if"), W, T("{")>>,
      <<T("%"), T("for"), W, T("{")>>,
      <<T("%"), W, T("unless"), W, T("x"), T("{"), T("a"), T("}"), W, T("{")>>,
      <<T("%"), W, T("if"), W, T("{"), W, T("x"), W, T("}")>>,
      <<T("%"), W, T("while"), W, T("x"), T("{"), T("a"), T("}"), T(";")>>,
      <<T("%"), W, T("iffy"), W, T("{")>>,
      <<T("%"), W, T("begin")>>,
      <<T("%"), W, T("}")>>,
      <<T("%"), W, T("x")>>,
      <<T("x")>> }

InitOpener == InitWith(OpenerLines, IndentSizes, {TRUE})

SpecOpener == InitOpener /\ [][Next]_vars

\* Lines that hold a non-indenting tag next to other text or tags, in lower and
\* in upper case, and lines that open and close scopes.
StackLines ==
    { <<O("div"), O("br")>>, <<O("meta"), O("div")>>,
      <<T("x"), O("img")>>, <<O("input"), T("x")>>, <<O("hr"), W, O("link")>>,
      <<O("BR")>>, <<O("br")>>, <<T("x"), O("br"), C("span")>>,
      <<O("span")>>, <<O("div")>>, <<C("div")>>, <<C("br")>> }

InitStack == InitWith(StackLines, IndentSizes, {TRUE})

SpecStack == InitStack /\ [][Next]_vars

\* Lines that end a paragraph with <br></span></p>, and the lines that open
\* the scopes around it.
ParagraphLines ==
    { <<T("x"), O("br"), C("span"), C("p")>>,
      <<T("x"), O("br"), C("span"), W, C("p")>>,
      <<O("p")>>, <<O("span")>>, <<O("div")>>, <<O("div"), O("div")>>,
      <<O("p"), O("span")>>,
      <<T("x")>> }

InitParagraph == InitWith(ParagraphLines, IndentSizes, {TRUE})

SpecParagraph == InitParagraph /\ [][Next]_vars

\* Lines with <br> directly before a closing tag that is not the </span></p>
\* pair, and the lines that open the scopes they close.
BreakLines ==
    { <<T("x"), O("br"), C("span")>>,
      <<T("x"), O("br"), C("div")>>,
      <<T("x"), O("br"), C("span"), C("span")>>,
      <<T("x"), O("br"), C("p"), C("div")>>,
      <<O("span")>>, <<O("SPAN")>>, <<O("p")>>, <<O("div")>>,
      <<O("span"), O("span")>>,
      <<T("x")>> }

InitBreak == InitWith(BreakLines, IndentSizes, {TRUE})

SpecBreak == InitBreak /\ [][Next]_vars

\* Lines of two and three adjacent closing tags, and lines that open enough
\* scopes for them to stand two steps in.
DeepLines ==
    { <<C("div"), C("div"), C("div")>>,
      <<C("div"), W, C("div"), C("div")>>,
      <<T("x"), C("div"), C("div"), C("div")>>,
      <<C("div"), C("div")>>,
      <<O("div"), O("div"), O("div")>>,
      <<O("div"), O("div")>>,
      <<O("div")>>,
      <<T("x")>> }

InitDeep == InitWith(DeepLines, IndentSizes, {TRUE})

SpecDeep == InitDeep /\ [][Next]_vars

\* Multi-line embedded regions whose code opens and closes braces and
\* parentheses, also more closers than openers; perltidy fails on every block.
FallbackLines ==
    { <<T("<%"), W, T("x"), T("{")>>,
      <<T("<%"), W, T("}")>>,
      <<T("}")>>,
      <<T("x"), T("(")>>,
      <<T(");")>>,
      <<T("x")>>,
      <<T("}"), W, T("%"), T(">")>>,
      <<T("x"), T(");"), W, T("%"), T(">")>>,
      <<T("x"), W, T("%"), T(">")>> }

InitFallback == InitCall(Docs(FallbackLines, MaxLines), IndentSizes, {TRUE}, {"nonzero"}, {"unset"})

SpecFallback == InitFallback /\ [][Next]_vars

\* Directive lines with each kind of character after the sigil.
SigilLines ==
    { <<T("%"), T("x")>>,
      <<T("%"), W, T("x")>>,
      <<W, W, T("%"), T("x"), W>>,
      <<T("%"), T("="), T("x")>>,
      <<T("%"), T("#"), T("x")>>,
      <<T("%"), T("%"), T("x")>>,
      <<T("%")>>,
      <<T("%"), T("if"), W, T("{")>>,
      <<T("%"), T("}")>>,
      <<T("%"), W, W, T("end")>>,
      <<O("div")>> }

InitSigil == InitWith(SigilLines, IndentSizes, {TRUE})

SpecSigil == InitSigil /\ [][Next]_vars

\* Lines with text after the tags a handler looks for, single-line embedded
\* tags and directive lines: no multi-line region.
TrailingLines ==
    { <<T("x"), O("br"), C("span"), W, C("p"), T("y")>>,
      <<T("x"), O("br"), C("span"), C("p"), T("y")>>,
      <<T("x"), O("br"), C("span"), W, C("p")>>,
      <<T("a"), C("div"), C("div"), T("b")>>,
      <<O("p"), O("span")>>, <<O("div")>>,
      <<T("<%"), T("x"), T("%"), T(">")>>,
      <<T("%"), T("x")>>,
      <<T("x")>> }

InitTrailing == InitWith(TrailingLines, IndentSizes, {TRUE})

SpecTrailing == InitTrailing /\ [][Next]_vars

\* Single-line embedded tags of every kind, and the lines around them.
VariantLines ==
    { <<T("<%"), T("="), W, T("x"), W, T("%"), T(">")>>,
      <<T("<%"), T("="), T("="), T("x"), T("%"), T(">")>>,
      <<T("<%"), T("#"), W, T("x"), W, T("%"), T(">")>>,
      <<T("<%"), W, T("x"), W, T("%"), T(">")>>,
      <<T("<%"), T("x"), T("%"), T(">")>>,
      <<O("p"), T("<%"), T("="), T("x"), T("%"), T(">"), C("p")>>,
      <<O("div")>>,
      <<T("x")>> }

InitVariant == InitWith(VariantLines, IndentSizes, {TRUE})

SpecVariant == InitVariant /\ [][Next]_vars

\* Blank lines and one line for each handler of pass 2.
HandlerLines ==
    { <<>>, <<W>>,
      <<T("%"), W, T("if"), W, T("{")>>,
      <<T("%"), W, T("end")>>,
      <<T("%"), W, T("}")>>,
      <<O("div")>>,
      <<C("div"), C("div")>>,
      <<T("x"), O("br"), C("span"), C("p")>>,
      <<T("x"), O("br"), C("div")>>,
      <<O("br")>>,
      <<T("<%"), T("x"), T("%"), T(">")>>,
      <<T("x")>> }

InitHandler == InitWith(HandlerLines, {4}, BOOLEAN)

SpecHandler == InitHandler /\ [][Next]_vars

\* Lines made only of closing tags, the lines that open their scopes, and the
\* two lines of a multi-line embedded region, with every behaviour of perltidy.
TerminationLines ==
    { <<C("div"), C("div"), C("div")>>,
      <<O("div"), O("div")>>,
      <<T("<%"), W, T("x")>>,
      <<T("y"), W, T("%"), T(">")>> }

InitTermination ==
    InitCall(Docs(TerminationLines, MaxLines), {4}, {TRUE}, ToolOutcomes, {"unset"})

SpecTermination == InitTermination /\ [][Next]_vars

\* Once format() has been called it runs on: an iteration of its loops that
\* can be taken is taken.
FairSpecTermination ==
    SpecTermination /\ WF_vars(Pass2Step \/ StartPost \/ PostStep \/ Finish)

\* Blank lines, embedded Perl and the lines around them.
BlankLines ==
    { <<>>, <<W>>,
      <<W, T("x")>>,
      <<T("<%"), W, T("%"), T(">")>>,
      <<T("<%"), T("="), T("x"), T("%"), T(">")>>,
      <<T("<%"), W, T("x"), T("{")>>,
      <<T("}"), W, T("%"), T(">")>>,
      <<T("<%")>>,
      <<T("%"), T(">")>>,
      <<C("div"), W, C("div")>> }

InitBlank == InitWith(BlankLines, {4}, BOOLEAN)

SpecBlank == InitBlank /\ [][Next]_vars


\* Lines that hold one non-indenting tag, and lines that open and close scopes.
VoidLines ==
    { <<O("br")>>, <<O("hr")>>, <<O("img")>>, <<O("input")>>, <<O("link")>>,
      <<O("meta")>>, <<W, S("br"), W>>,
      <<O("div")>>, <<O("span")>>, <<C("div")>>,
      <<T("%"), W, T("if"), W, T("{")>> }

InitVoid == InitWith(VoidLines, IndentSizes, {TRUE})

SpecVoid == InitVoid /\ [][Next]_vars

\* Embedded Perl regions of every size, and the lines around them.
RegionLines ==
    { <<T("<%"), W, T("x"), T("{")>>,
      <<T("}"), W, T("%"), T(">")>>,
      <<T("}"), W, T("%"), T(">"), T("<%"), W, T("x"), T("{")>>,
      <<T("<%"), W, T("%"), T(">")>>,
      <<T("<%"), W, W, T("x"), W, W, T("%"), T(">")>>,
      <<T("<%"), T("x"), T("%"), T(">")>>,
      <<T("<%")>>, <<T("%"), T(">")>>,
      <<T("x")>>,
      <<O("div")>>,
      <<C("div"), C("div")>> }

InitRegion == InitWith(RegionLines, IndentSizes, {TRUE})

SpecRegion == InitRegion /\ [][Next]_vars

\* Multi-line embedded regions (up to two in a document) and the lines around
\* them, with every behaviour of perltidy and of the inspection directory.
ToolLines ==
    { <<T("<%"), W, T("x"), T("{")>>,
      <<T("}"), W, T("%"), T(">")>>,
      <<T("}"), W, T("%"), T(">"), T("<%"), W, T("x"), T("{")>>,
      <<T("<%"), W, T("x"), W, T("%"), T(">")>>,
      <<T("x")>> }

OutputDirs == {"unset", "writable", "unwritable"}

InitTool == InitCall(Docs(ToolLines, MaxLines), {4}, {TRUE}, ToolOutcomes, OutputDirs)

SpecTool == InitTool /\ [][Next]_vars

\* Once format() has been called it runs on: an iteration of its loops that
\* can be taken is taken (the interpreter does not stop by itself).
FairSpecTool == SpecTool /\ WF_vars(Pass2Step \/ StartPost \/ PostStep \/ Finish)

\* The longest document of a formatter object that is used twice, in pieces.
MaxReuseLines == 2

\* A multi-line embedded region: a piece of two lines.
RegionPiece == <<T("<%"), W, T("x"), T("{"), NL, T("}"), W, T("%"), T(">")>>

\* What the first document is made of: lines that leave a tag or a block open
\* or a flag set, and a region that raises perltidy_block_count.
FirstLines ==
    { <<O("div")>>,
      <<T("%"), W, T("if"), W, T("{")>>,
      <<T("%"), W, T("content_for"), W, T("=>"), W, T("begin")>>,
      RegionPiece }

\* What the second document is made of.
SecondLines ==
    { <<O("div")>>, <<C("div")>>,
      <<T("%"), W, T("end")>>,
      <<T("x")>>,
      RegionPiece }

InitReuse ==
    InitCall(Docs(FirstLines, MaxReuseLines), {4}, {TRUE}, {"ok", "nonzero"}, {"unset"})

NextReuse == Next \/ Reuse(Docs(SecondLines, MaxReuseLines), {"ok", "nonzero"})

SpecReuse == InitReuse /\ [][NextReuse]_vars

\* The longest document of two interleaved calls, in pieces.
MaxParLines == 1

\* What the documents of the interleaved calls are made of.
ParLines ==
    { <<O("div"), NL, O("div"), NL, C("div"), C("div")>>,
      RegionPiece,
      <<O("div"), NL>> \o RegionPiece }

\* Two calls on documents of at most MaxParLines pieces; perltidy succeeds for
\* the first call and exits with a non-zero status for the second.
InitParallel ==
    /\ \E d1 \in Docs(ParLines, MaxParLines), d2 \in Docs(ParLines, MaxParLines) :
           par = <<NewCall(d1, 4, TRUE, [k \in 1..MultiLineBlocks(d1) |-> "ok"]),
                   NewCall(d2, 4, TRUE, [k \in 1..MultiLineBlocks(d2) |-> "nonzero"])>>
    /\ os = NoFiles
    /\ pc = "idle"
    /\ content = <<>>
    /\ lines = <<>>
    /\ i = 0
    /\ self = NewFormatter(4, TRUE)
    /\ result_lines = <<>>
    /\ origin = <<>>
    /\ in_perl_block = FALSE
    /\ pi = 0
    /\ tool = <<>>
    /\ reused = <<>>
    /\ web = <<>>

SpecParallel == InitParallel /\ [][NextParallel]_vars

\* The server has started and has answered nothing yet.
InitWeb ==
    /\ web = [hits |-> [ep \in Endpoints |-> 0],
              req |-> [endpoint |-> "none"],
              resp |-> Response(0, 0, FALSE, "")]
    /\ os = NoFiles
    /\ pc = "idle"
    /\ content = <<>>
    /\ lines = <<>>
    /\ i = 0
    /\ self = NewFormatter(4, TRUE)
    /\ result_lines = <<>>
    /\ origin = <<>>
    /\ in_perl_block = FALSE
    /\ pi = 0
    /\ tool = <<>>
    /\ reused = <<>>
    /\ par = <<>>

SpecWeb == InitWeb /\ [][NextWeb]_vars

-----------------------------------------------------------------------------
(* The claims *)

\* C1: for every input, format() finishes normally: no exception escapes from
\* the line classifier, the markup-stack updates or the post-pass.
C1_FormatNeverRaises == pc # "raised" /\ self.exc = "none"

\* C2: in every state of pass 2, current_indent is >= 0, every value on the
\* directive-block stack is >= 0, and every line is emitted with a
\* non-negative number of leading spaces.
C2_IndentNeverNegative ==
    /\ self.current_indent >= 0
    /\ \A k \in 1..Len(self.perl_block_stack) : self.perl_block_stack[k] >= 0
    /\ \A k \in 1..Len(self.indents) : self.indents[k] >= 0

\* A line of two closing tags has popped a p that was opened less than one
\* step above zero: the floor has applied.
C2_FloorApplied ==
    /\ pc = "pass2"
    /\ i >= 2
    /\ lines[i - 1] = <<O("p"), T("hi"), C("p")>>
    /\ lines[i] = <<C("span"), C("p")>>
    /\ self.indents[i - 1] + (self.indent_size \div 2) - self.indent_size < 0
    /\ self.current_indent = 0


(* Nesting of a document, read off its text: what C3 and C4 call an opener *)
(* and its matching closer.                                               *)

\* The tags of a markup line as nesting events, in order.
RECURSIVE TagEvents(_, _)
TagEvents(s, k) ==
    IF s = <<>> THEN <<>>
    ELSE (IF Head(s).k \in {"open", "close"}
             /\ Lower(Head(s).n) \notin {"br", "hr", "img", "input", "link", "meta"}
          THEN <<[op |-> IF Head(s).k = "open" THEN "push" ELSE "pop",
                  what |-> Lower(Head(s).n), line |-> k]>>
          ELSE <<>>)
         \o TagEvents(Tail(s), k)

\* The nesting events of line k: a block opener pushes, `% }` and `% end` pop;
\* `% } else {` and a one-line block change nothing.
LineEvents(line, k) ==
    IF Strip(line) = <<>> THEN <<>>
    ELSE IF ~IsTxt(Head(LStrip(line)), "%") THEN TagEvents(line, k)
    ELSE LET t == Strip(Tail(LStrip(line)))
         IN IF t = <<>> THEN <<>>
            ELSE IF IsTxt(t[Len(t)], "begin") /\ \E p \in 1..Len(t) : t[p].n \in {"content_for", "form_for"}
            THEN <<[op |-> "push", what |-> "begin", line |-> k]>>
            ELSE IF Head(t).n \in {"if", "for", "while", "unless"} /\ IsTxt(t[Len(t)], "{")
            THEN <<[op |-> "push", what |-> "brace", line |-> k]>>
            ELSE IF t = <<T("}")>>
            THEN <<[op |-> "pop", what |-> "brace", line |-> k]>>
            ELSE IF t = <<T("end")>>
            THEN <<[op |-> "pop", what |-> "begin", line |-> k]>>
            ELSE <<>>

RECURSIVE EventsFrom(_, _)
EventsFrom(ls, k) ==
    IF k > Len(ls) THEN <<>> ELSE LineEvents(ls[k], k) \o EventsFrom(ls, k + 1)

RECURSIVE DirectiveOnly(_)
DirectiveOnly(ev) ==
    IF ev = <<>> THEN <<>>
    ELSE (IF Head(ev).what \in {"brace", "begin"} THEN <<Head(ev)>> ELSE <<>>)
         \o DirectiveOnly(Tail(ev))

\* The openers still open after the events, and whether every closer so far
\* closed the innermost open opener.
RECURSIVE Walk(_, _)
Walk(ev, st) ==
    IF ev = <<>> THEN [ok |-> TRUE, open |-> st]
    ELSE IF Head(ev).op = "push" THEN Walk(Tail(ev), Append(st, Head(ev)))
    ELSE IF st # <<>> /\ st[Len(st)].what = Head(ev).what
    THEN Walk(Tail(ev), SubSeq(st, 1, Len(st) - 1))
    ELSE [ok |-> FALSE, open |-> st]

Balanced(ls) ==
    /\ Walk(EventsFrom(ls, 1), <<>>).ok
    /\ Walk(EventsFrom(ls, 1), <<>>).open = <<>>

\* C3: for an input in which every directive opener has a matching closer and
\* every markup opening tag a matching closing tag, in document order and
\* properly nested, current_indent is zero after the last line.
C3_BalancedEndsAtZero ==
    (pc \in {"post", "done"} /\ Balanced(lines)) => self.current_indent = 0

\* The directive openers open before line k, when the directive lines before k nest.
OpenBefore(ls, k) == Walk(DirectiveOnly(EventsFrom(SubSeq(ls, 1, k - 1), 1)), <<>>)

\* C4: the line that closes a directive block is emitted at the indent of the
\* line that opened it, whatever lines occur in the body.
C4_CloserMirrorsOpener ==
    \A k \in 1..Len(self.indents) :
        LET ev == DirectiveOnly(LineEvents(lines[k], k))
            before == OpenBefore(lines, k)
        IN (/\ ev # <<>>
            /\ ev[1].op = "pop"
            /\ before.ok
            /\ before.open # <<>>
            /\ before.open[Len(before.open)].what = ev[1].what)
           => self.indents[k] = self.indents[before.open[Len(before.open)].line]


\* C5: for an input without a multi-line embedded code block, formatting the
\* text that format() returned yields that text again.
C5_Idempotent ==
    (pc = "done" /\ MultiLineBlocks(content) = 0)
        => Format(Returned, self.indent_size, self.remove_blank_lines, TRUE)
               = [exc |-> "none", text |-> Returned]

\* C6: a line that opens a span raises current_indent by indent_size // 2, and
\* the next line, when the one tag it closes is that span, restores
\* current_indent to the value it had before the span was opened.
C6_SpanHalfStep ==
    \A k \in 1..Len(lines) :
        (pc = "pass2" /\ lines[k] = <<O("span")>>)
            => /\ i = k => self.current_indent
                               = self.indents[k] + (self.indent_size \div 2)
               /\ (i = k + 1 /\ CloseTags(lines[k + 1]) = <<"span">>)
                      => self.current_indent = self.indents[k]

\* C7: a markup line that opens and closes the same indenting tag has no net
\* effect on current_indent and on the markup-tag stack.
C7_SameLineTagNoNetEffect ==
    [][(pc = "pass2" /\ i < Len(lines) /\ lines[i + 1] = <<O("p"), T("hi"), C("p")>>)
           => /\ self'.current_indent = self.current_indent
              /\ self'.html_tag_stack = self.html_tag_stack]_vars


\* The line holds one tag of the non-indenting set and nothing else.
OnlyVoidTag(line) ==
    /\ Len(Strip(line)) = 1
    /\ Strip(line)[1].k \in {"open", "self"}
    /\ Strip(line)[1].n \in {"br", "hr", "img", "input", "link", "meta"}

\* C8: a line that holds only <br>, or only another tag of the non-indenting
\* set, is emitted at current_indent and leaves current_indent and the
\* markup-tag stack unchanged.
C8_VoidTagLineChangesNothing ==
    [][(pc = "pass2" /\ i < Len(lines) /\ OnlyVoidTag(lines[i + 1]))
           => /\ self'.current_indent = self.current_indent
              /\ self'.html_tag_stack = self.html_tag_stack
              /\ self'.output_lines
                     = Append(self.output_lines,
                              Spaces(self.current_indent) \o LStrip(lines[i + 1]))]_vars

\* A line of one non-indenting tag has been processed inside an open scope.
C8_VoidLineInScope ==
    /\ pc = "pass2"
    /\ i >= 1
    /\ OnlyVoidTag(lines[i])
    /\ self.current_indent > 0
    /\ self.html_tag_stack # <<>>
    /\ self.indents[i] = self.current_indent

\* The result lines that came from output line k, in order.
RECURSIVE FragmentsFrom(_, _)
FragmentsFrom(k, j) ==
    IF j > Len(result_lines) THEN <<>>
    ELSE (IF origin[j] = k THEN <<result_lines[j]>> ELSE <<>>) \o FragmentsFrom(k, j + 1)

RECURSIVE MarkRegions(_)
MarkRegions(s) ==
    IF FindStart(s, 1) = 0 THEN s
    ELSE SubSeq(s, 1, FindStart(s, 1) - 1) \o <<T("R")>>
         \o MarkRegions(SubSeq(s, FindEnd(s, FindStart(s, 1) + 1) + 2, Len(s)))

\* The blank lines of a text relative to its non-blank lines: "B" for each
\* blank line, "N" for each run of non-blank lines.
RECURSIVE Shape(_)
Shape(ls) ==
    IF ls = <<>> THEN <<>>
    ELSE IF Strip(Head(ls)) = <<>> THEN <<"B">> \o Shape(Tail(ls))
    ELSE IF Shape(Tail(ls)) # <<>> /\ Head(Shape(Tail(ls))) = "N" THEN Shape(Tail(ls))
    ELSE <<"N">> \o Shape(Tail(ls))

\* C10: with remove_blank_lines the output of format() has no empty or
\* whitespace-only line; without it each blank input line outside the embedded
\* code regions yields one empty output line at the same position relative to
\* the non-blank lines.
C10_BlankLineHandling ==
    pc = "done" =>
        /\ self.remove_blank_lines
               => \A k \in 1..Len(self.output_lines) : Strip(self.output_lines[k]) # <<>>
        /\ ~self.remove_blank_lines
               => /\ Shape(self.output_lines) = Shape(SplitLines(MarkRegions(content)))
                  /\ \A k \in 1..Len(self.output_lines) :
                         Strip(self.output_lines[k]) = <<>> => self.output_lines[k] = <<>>

\* format() has returned, with remove_blank_lines set, for an input that has a
\* blank line between two non-blank lines.
C10_InteriorBlankDropped ==
    /\ pc = "done"
    /\ self.remove_blank_lines
    /\ Shape(SplitLines(content)) = <<"N", "B", "N">>
    /\ Len(self.output_lines) >= 2


\* The lines that pass 2 emits a line for: with remove_blank_lines, the
\* non-blank lines of the text that pass 1 returned.
PassedLines ==
    IF self.remove_blank_lines THEN SelectSeq(lines, LAMBDA l : Strip(l) # <<>>)
    ELSE lines

StartDelimiterLine == <<T("<%")>>
EndDelimiterLine == <<T("%"), T(">")>>

\* The number of lines of ls that are the end delimiter alone.
RECURSIVE EndDelimiterLines(_)
EndDelimiterLines(ls) ==
    IF ls = <<>> THEN 0
    ELSE (IF Strip(Head(ls)) = EndDelimiterLine THEN 1 ELSE 0) + EndDelimiterLines(Tail(ls))

\* C11: in the text format() returns, the start delimiter line and the end
\* delimiter line that pass 1 wrote around every multi-line embedded region
\* are still the delimiter alone: no later pass inserts a character (a space)
\* inside or before `%>`.
C11_EndDelimiterIntact ==
    (pc = "done" /\ MultiLineBlocks(content) > 0
        /\ EndDelimiterLines(PassedLines) = MultiLineBlocks(content))
        => \A k \in 1..Len(self.output_lines) :
               /\ Strip(PassedLines[origin[k]]) = EndDelimiterLine
                      => Strip(self.output_lines[k]) = EndDelimiterLine
               /\ Strip(PassedLines[origin[k]]) = StartDelimiterLine
                      => Strip(self.output_lines[k]) = StartDelimiterLine

\* Whether the line after the first p lines of ls lies strictly inside an
\* embedded region: a start delimiter line is among the p, with no end
\* delimiter line after it.
RECURSIVE RegionFlag(_, _)
RegionFlag(ls, p) ==
    IF p = 0 THEN FALSE
    ELSE IF Strip(ls[p]) = StartDelimiterLine THEN TRUE
    ELSE IF Strip(ls[p]) = EndDelimiterLine THEN FALSE
    ELSE RegionFlag(ls, p - 1)

\* C12: in the post-pass, in_perl_block is true exactly for the lines strictly
\* between the start delimiter line and the end delimiter line of a region;
\* those lines pass through verbatim, the flag is false after the end
\* delimiter, and every line outside a region that holds two adjacent closing
\* tags is split.
C12_FlagFollowsRegion ==
    /\ pc = "post"
           => /\ in_perl_block <=> RegionFlag(PassedLines, pi)
              /\ \A k \in 1..Len(result_lines) :
                     RegionFlag(PassedLines, origin[k] - 1)
                         => result_lines[k] = self.output_lines[origin[k]]
    /\ pc = "done"
           => \A k \in 1..Len(self.output_lines) :
                  ~RegionFlag(PassedLines, origin[k] - 1)
                      => ~multiple_closing_tags_pattern(self.output_lines[k])


\* The interior of the first embedded region of s, trimmed: match.group(1).
FirstCode(s) ==
    StripAll(SubSeq(s, FindStart(s, 1) + 1, FindEnd(s, FindStart(s, 1) + 1) - 1))

\* The replacement that the two small cases call for.
SmallForm(code) ==
    IF code = <<>> THEN <<T("<%"), NL, T("%"), T(">")>>
    ELSE <<T("<%"), W>> \o code \o <<W, T("%"), T(">")>>

\* C13: pass 1 replaces a region whose interior is empty or whitespace by `<%`
\* on one line and `%>` on the next, and a region whose interior is one
\* non-empty line by `<%`, one space, the trimmed interior, one space, `%>`;
\* pass 1 applied to either form returns it unchanged.
C13_SmallRegions ==
    (pc # "start" /\ MultiLineBlocks(content) = 0 /\ FindStart(content, 1) > 0)
        => /\ lines = SplitLines(
                   SubSeq(content, 1, FindStart(content, 1) - 1)
                   \o SmallForm(FirstCode(content))
                   \o PreprocessEmbeddedPerl(
                          SubSeq(content, FindEnd(content, FindStart(content, 1) + 1) + 2,
                                 Len(content)),
                          FALSE, self.indent_size))
           /\ PreprocessEmbeddedPerl(SmallForm(FirstCode(content)), FALSE, self.indent_size)
                  = SmallForm(FirstCode(content))
           /\ PreprocessEmbeddedPerl(Join(lines), FALSE, self.indent_size) = Join(lines)

\* Pass 1 has rewritten a one-line region that was not padded with one space,
\* and an empty region that was written on one line.
C13_RegionsRewritten ==
    /\ pc = "pass2"
    /\ MultiLineBlocks(content) = 0
    /\ FindStart(content, 1) > 0
    /\ FirstCode(content) = <<T("x")>>
    /\ content[FindStart(content, 1) + 1] # W
    /\ \E k \in 2..Len(lines) : lines[k - 1] = <<T("<%")>> /\ lines[k] = <<T("%"), T(">")>>
    /\ Join(lines) # content


\* The text pass 1 is to return when the perltidy run of the k-th multi-line
\* region succeeds exactly if oks[k]: that region holds perltidy's result, a
\* region whose run failed holds the fallback formatter's, and a small region
\* its small form.
RECURSIVE PerBlock(_, _, _)
PerBlock(s, oks, size) ==
    IF FindStart(s, 1) = 0 THEN s
    ELSE SubSeq(s, 1, FindStart(s, 1) - 1)
         \o (IF Len(SplitLines(FirstCode(s))) <= 1 THEN SmallForm(FirstCode(s))
             ELSE <<T("<%"), NL>>
                  \o Join(IF Head(oks) THEN Tidy(SplitLines(FirstCode(s)))
                          ELSE SimpleFormat(SplitLines(FirstCode(s)), size, size))
                  \o <<NL, T("%"), T(">")>>)
         \o PerBlock(SubSeq(s, FindEnd(s, FindStart(s, 1) + 1) + 2, Len(s)),
                     IF Len(SplitLines(FirstCode(s))) <= 1 THEN oks ELSE Tail(oks),
                     size)

ToolRuns == {tool[k] : k \in 1..Len(tool)}

\* C14: when perltidy is unavailable, exits with a non-zero status or leaves no
\* (readable) output file, _run_perltidy returns None: no exception leaves
\* pass 1, the block of that run alone is formatted by the fallback, the other
\* blocks are formatted by their own runs, and format() goes on to return.
C14_ToolFailureRecovered ==
    (pc # "start" /\ "hang" \notin ToolRuns)
        => /\ pc \notin {"raised", "blocked"}
           /\ self.exc = "none"
           /\ lines = SplitLines(PerBlock(content, [k \in 1..Len(tool) |-> tool[k] = "ok"],
                                          self.indent_size))

\* format() has returned for a document of two blocks, the first run having
\* failed (perltidy not installed) and the second succeeded.
C14_SecondBlockStillTidied ==
    /\ pc = "done"
    /\ Len(tool) = 2
    /\ tool[1] \in {"unavailable", "nonzero", "no_output"}
    /\ tool[2] = "ok"
    /\ \E k \in 1..Len(lines) : lines[k] = Spaces(self.indent_size) \o <<T("x"), T("{")>>
    /\ \E k \in 1..Len(lines) : lines[k] = <<T("x"), T("{")>>

\* C15: when _run_perltidy has returned, on whatever path, the temporary input
\* file and the temporary output file of the run no longer exist.
C15_TempFilesRemoved ==
    pc \notin {"start", "blocked"} => os.tmp_files = {}

\* C16: once its first pass has begun, format() eventually returns (or
\* raises), even when a perltidy process never exits: the wait for the process
\* is bounded and the block falls back.
C16_FormatReturns == (pc # "start") ~> (pc \in {"done", "raised"})


\* The same call on a new formatter that has no inspection directory.
WithoutInspection ==
    FormatRun(content, NewFormatter(self.indent_size, self.remove_blank_lines), tool)

\* C17: whether perltidy_output_dir is unset, writable or unwritable, pass 1
\* hands the same lines to pass 2 and format() returns the same text for the
\* same input and the same tool behaviour: a failed inspection write does not
\* turn a successful perltidy result into a fallback.
C17_InspectionNeverChangesResult ==
    /\ pc \notin {"start", "blocked"} => lines = WithoutInspection.lines
    /\ pc = "done" => Returned = WithoutInspection.text

\* format() has returned although every inspection write failed, and perltidy
\* had succeeded on a block; and the inspection files are written when they can be.
C17_UnwritableDirIgnored ==
    /\ pc = "done"
    /\ self.perltidy_output_dir = "unwritable"
    /\ "ok" \in ToolRuns
    /\ os.saved_files = {}
    /\ os.tmp_files = {}


\* The same call on a formatter object that has formatted nothing before.
OnNewFormatter ==
    FormatRun(content,
              [NewFormatter(self.indent_size, self.remove_blank_lines)
                   EXCEPT !.perltidy_output_dir = self.perltidy_output_dir],
              tool)

\* C18: format(x) on a formatter object that has already formatted another
\* document (whatever tags, blocks and flags that one left) returns the text
\* that format(x) returns on a new object with the same configuration and the
\* same tool behaviour.
C18_NothingPersists ==
    reused # <<>>
        => /\ pc \notin {"start", "blocked"} => lines = OnNewFormatter.lines
           /\ pc = "raised" => OnNewFormatter.exc # "none"
           /\ pc = "done" => /\ OnNewFormatter.exc = "none"
                             /\ Returned = OnNewFormatter.text

\* The second call has returned a text on a formatter object that the first
\* call left with a tag open, a raised indent and a raised block count.
C18_SecondCallOnUsedObject ==
    /\ pc = "done"
    /\ reused # <<>>
    /\ reused[1].html_tag_stack # <<>>
    /\ reused[1].current_indent > 0
    /\ self.perltidy_block_count > MultiLineBlocks(content)
    /\ Returned # <<>>


\* Call c run alone.
Alone(c) == FormatRun(par[c].content, NewFormatter(4, TRUE), par[c].tool)

\* C19: when two calls of format_mojolicious_template on independent documents
\* are interleaved step by step, each returns the text it returns when run
\* alone, and no temporary file name is given to both.
C19_ParallelCallsIndependent ==
    par # <<>>
        => /\ \A c \in {1, 2} :
                  /\ (par[c].pc = "pass2" /\ par[c].i = 0) => par[c].lines = Alone(c).lines
                  /\ par[c].pc = "raised" => Alone(c).exc # "none"
                  /\ par[c].pc = "done"
                         => /\ Alone(c).exc = "none"
                            /\ Join(par[c].self.output_lines) = Alone(c).text
           /\ par[1].names \cap par[2].names = {}

\* Both calls have returned a text, each having run perltidy and each having
\* taken steps while the other was under way.
C19_BothReturnedInterleaved ==
    /\ par # <<>>
    /\ \A c \in {1, 2} :
           /\ par[c].pc = "done"
           /\ par[c].overlapped
           /\ par[c].names # {}
           /\ par[c].self.output_lines # <<>>
    /\ par[1].content # par[2].content


\* C20: a request to /api/format or /api/format_ajax that does not carry
\* `Authorization: Bearer <token>` with the server's token does not start the
\* formatter, and is answered 401 (unless the rate limit has answered it first).
C20_FormatterNeedsToken ==
    (web # <<>> /\ web.req.endpoint \in Endpoints /\ ~TokenAccepted(web.req.auth))
        => /\ ~web.resp.ran
           /\ web.resp.status \in {401, 429}


\* The messages that the error responses of the hosting layer are written
\* with: the literals of validate_api_input, run_mojofmt, the two views, the
\* token check and the rate limit handler.
FixedMessages ==
    { "JSON body required", "Invalid data format", "input_text must be a string",
      "input_text cannot be empty", "input_text too large", "Invalid input text",
      "Processing failed", "Internal server error", "Unauthorized", "Rate limit exceeded" }

\* C21: for every request to a formatting endpoint the formatter process is
\* started at most once, and only after validation of the input has passed;
\* every failure is answered with an error message out of a fixed set of
\* strings (never the text of an exception, a path or the process's stderr).
C21_FailuresReportFixedMessages ==
    web.req.endpoint \in Endpoints
        => /\ web.resp.starts <= 1
           /\ web.resp.starts = 1 => web.resp.validated
           /\ web.resp.status # 200 => web.resp.error \in FixedMessages


\* The entries of the markup-tag stack whose name is name in lower case.
LowerCount(stack, name) == Cardinality({p \in 1..Len(stack) : Lower(stack[p]) = name})

\* The line that pass 2 handles next is a markup line whose one tag is a
\* closing tag named name (in any case), and the markup-tag stack holds an entry
\* of that name (in any case).
ClosesOpenTag(name) ==
    /\ pc = "pass2"
    /\ i < Len(lines)
    /\ ~IsMojoCommandLine(lines[i + 1])
    /\ OpenTags(lines[i + 1]) = <<>>
    /\ Len(CloseTags(lines[i + 1])) = 1
    /\ Lower(CloseTags(lines[i + 1])[1]) = name
    /\ InSeq(name, LowerAll(self.html_tag_stack))

\* C22: a markup line with a closing tag whose name, compared without case, is
\* the name of an entry of the markup-tag stack removes exactly one such entry
\* and lowers current_indent by one step, by half a step for span and p; also
\* when the case of the closing tag differs from the opener's.
C22_ClosingTagRemovesEntry ==
    [][\A name \in {"div", "span", "p"} :
           ClosesOpenTag(name)
               => /\ LowerCount(self'.html_tag_stack, name)
                         = LowerCount(self.html_tag_stack, name) - 1
                  /\ self'.current_indent
                         = Max(0, self.current_indent
                                      - (IF name \in {"span", "p"}
                                         THEN self.indent_size \div 2
                                         ELSE self.indent_size))]_vars


\* The branch of _process_mojo_command_line that a line takes: "content",
\* "form", "open", "brace", "end" or "plain"; "none" for a line that is not a
\* directive line.
DirectiveCase(line) ==
    LET stripped == SigilSpace(LStrip(line))
    IN  IF ~IsMojoCommandLine(line) THEN "none"
        ELSE IF content_block_start_pattern(stripped) THEN "content"
        ELSE IF form_block_start_pattern(stripped) THEN "form"
        ELSE IF perl_block_start_pattern(stripped) THEN "open"
        ELSE IF perl_block_end_pattern(stripped) THEN "brace"
        ELSE IF perl_end_pattern(stripped) THEN "end"
        ELSE "plain"

\* Pass 2 handles a line of the given branch next.
NextLineIs(case) == pc = "pass2" /\ i < Len(lines) /\ DirectiveCase(lines[i + 1]) = case

\* C23: an `end` directive changes one nesting record, chosen in this order:
\* the form flag when it is set and the directive stack is empty (one step
\* down, floored at 0); else the content flag when it is set and the directive
\* stack is empty (one step down); else the top of the directive stack, whose
\* value becomes current_indent; else nothing.  The line is emitted at the
\* resulting current_indent.
C23_EndResolution ==
    [][NextLineIs("end")
           => LET form == self.in_form_block
                  cont == self.in_content_block
                  stack == self.perl_block_stack
                  down == Max(0, self.current_indent - self.indent_size)
              IN  /\ (form /\ stack = <<>>)
                         => /\ ~self'.in_form_block
                            /\ self'.in_content_block = cont
                            /\ self'.perl_block_stack = stack
                            /\ self'.current_indent = down
                  /\ (~form /\ cont /\ stack = <<>>)
                         => /\ ~self'.in_content_block
                            /\ ~self'.in_form_block
                            /\ self'.perl_block_stack = stack
                            /\ self'.current_indent = down
                  /\ stack # <<>>
                         => /\ self'.in_form_block = form
                            /\ self'.in_content_block = cont
                            /\ self'.perl_block_stack = SubSeq(stack, 1, Len(stack) - 1)
                            /\ self'.current_indent = stack[Len(stack)]
                  /\ (~form /\ ~cont /\ stack = <<>>)
                         => /\ ~self'.in_form_block
                            /\ ~self'.in_content_block
                            /\ self'.perl_block_stack = <<>>
                            /\ self'.current_indent = self.current_indent
                  /\ self'.html_tag_stack = self.html_tag_stack
                  /\ self'.indents = Append(self.indents, self'.current_indent)]_vars

\* A content block was opened, then a control block; the `% end` that followed
\* has popped the directive stack and left the content flag set.
C23_EndPoppedInsideContentBlock ==
    /\ pc = "pass2"
    /\ i = 3
    /\ DirectiveCase(lines[1]) = "content"
    /\ DirectiveCase(lines[2]) = "open"
    /\ DirectiveCase(lines[3]) = "end"
    /\ self.in_content_block
    /\ self.perl_block_stack = <<>>
    /\ self.current_indent = self.indent_size


\* C24: a `% }` line with a non-empty directive stack pops the stack, sets
\* current_indent to the popped value and is emitted at that value; with an
\* empty directive stack it is emitted at current_indent and leaves the
\* directive stack, the markup stack, both mode flags and current_indent as
\* they were.
C24_ClosingBrace ==
    [][NextLineIs("brace")
           => LET stack == self.perl_block_stack
              IN  /\ stack # <<>>
                         => /\ self'.perl_block_stack = SubSeq(stack, 1, Len(stack) - 1)
                            /\ self'.current_indent = stack[Len(stack)]
                            /\ self'.indents = Append(self.indents, stack[Len(stack)])
                  /\ stack = <<>>
                         => /\ self'.perl_block_stack = <<>>
                            /\ self'.current_indent = self.current_indent
                            /\ self'.indents = Append(self.indents, self.current_indent)
                            /\ self'.html_tag_stack = self.html_tag_stack
                            /\ self'.in_form_block = self.in_form_block
                            /\ self'.in_content_block = self.in_content_block]_vars

\* A `% }` line was handled inside an open <div> with no control block open:
\* it was emitted one step in and nothing else changed.
C24_StrayBraceInsideMarkup ==
    /\ pc = "pass2"
    /\ i = 2
    /\ lines[1] = <<O("div")>>
    /\ DirectiveCase(lines[2]) = "brace"
    /\ self.perl_block_stack = <<>>
    /\ self.html_tag_stack = <<"div">>
    /\ self.indents = <<0, self.indent_size>>
    /\ self.current_indent = self.indent_size


ControlKeywords == {"if", "for", "while", "unless", "begin"}

\* The directive line starts with the sigil and a control keyword.
StartsWithKeyword(line) ==
    /\ IsMojoCommandLine(line)
    /\ SigilThen(SigilSpace(LStrip(line)), 1, ControlKeywords) > 0

\* The last character of the line is `{`.
EndsInBrace(line) == Strip(line) # <<>> /\ IsTxt(Strip(line)[Len(Strip(line))], "{")

ContainsBrace(line) == \E p \in 1..Len(line) : IsTxt(line[p], "{")

\* C25: a directive line pushes current_indent onto the directive stack and
\* raises current_indent by one step if and only if it is the sigil, one of if,
\* for, while, unless, begin, and ends in `{`; a directive line that starts with
\* such a keyword and holds a `{` without ending in one changes no state.
C25_OpenerClassification ==
    [][(pc = "pass2" /\ i < Len(lines) /\ IsMojoCommandLine(lines[i + 1]))
           => LET line == lines[i + 1]
                  pushed ==
                      /\ self'.perl_block_stack
                             = Append(self.perl_block_stack, self.current_indent)
                      /\ self'.current_indent = self.current_indent + self.indent_size
              IN  /\ pushed <=> (StartsWithKeyword(line) /\ EndsInBrace(line))
                  /\ (StartsWithKeyword(line) /\ ContainsBrace(line) /\ ~EndsInBrace(line))
                         => /\ self'.perl_block_stack = self.perl_block_stack
                            /\ self'.current_indent = self.current_indent
                            /\ self'.html_tag_stack = self.html_tag_stack
                            /\ self'.in_form_block = self.in_form_block
                            /\ self'.in_content_block = self.in_content_block]_vars


\* C26: the markup-tag stack never holds the name of a non-indenting tag (br,
\* hr, img, input, link, meta, in any case).
C26_NoVoidTagOnStack ==
    \A k \in 1..Len(self.html_tag_stack) :
        Lower(self.html_tag_stack[k]) \notin {"br", "hr", "img", "input", "link", "meta"}

\* The line <div><br> has gone through the loop over the opening tags: div was
\* pushed, br was not.
C26_VoidTagBesideOpener ==
    /\ pc = "pass2"
    /\ i = 1
    /\ lines[1] = <<O("div"), O("br")>>
    /\ self.html_tag_stack = <<"div">>
    /\ self.current_indent = self.indent_size


\* Pass 2 handles next a markup line that matches <br> + </span> + </p>.
NextLineEndsParagraph ==
    /\ pc = "pass2"
    /\ i < Len(lines)
    /\ DirectiveCase(lines[i + 1]) = "none"
    /\ \/ br_span_p_pattern(LStrip(lines[i + 1]))
       \/ br_span_space_p_pattern(LStrip(lines[i + 1]))

\* The positions of the stack, counted from 0, that hold a p.
PPositions(stack) == {k \in 0..(Len(stack) - 1) : Lower(stack[k + 1]) = "p"}

\* The least number of a non-empty set of numbers.
Least(set) == CHOOSE k \in set : \A m \in set : k <= m

\* C27: a line matching <br> + </span> + </p> is emitted at (position of the
\* first p on the markup stack) x indent_size when a p is on the stack, position
\* 0 included, and at max(0, current_indent - 2 x indent_size) only when no p is
\* on the stack; current_indent becomes the emitted indent, and one span and one
\* p are removed from the stack if present.
C27_ParagraphBaseIndent ==
    [][NextLineEndsParagraph
           => LET stack == self.html_tag_stack
                  base == IF PPositions(stack) # {}
                          THEN Least(PPositions(stack)) * self.indent_size
                          ELSE Max(0, self.current_indent - 2 * self.indent_size)
              IN  /\ self'.indents = Append(self.indents, base)
                  /\ self'.current_indent = base
                  /\ LowerCount(self'.html_tag_stack, "span")
                         = Max(0, LowerCount(stack, "span") - 1)
                  /\ LowerCount(self'.html_tag_stack, "p")
                         = Max(0, LowerCount(stack, "p") - 1)
                  /\ Len(self'.html_tag_stack)
                         = Len(stack) - Min(1, LowerCount(stack, "span"))
                                      - Min(1, LowerCount(stack, "p"))]_vars


\* Pass 2 handles next a markup line of case 2: <br> directly before a closing
\* tag, and not the <br></span></p> of case 1.
NextLineBreaksAndCloses ==
    /\ pc = "pass2"
    /\ i < Len(lines)
    /\ DirectiveCase(lines[i + 1]) = "none"
    /\ ~NextLineEndsParagraph
    /\ br_with_close_tags_pattern(LStrip(lines[i + 1]))

\* The closing tags of a line whose lower-case name is name.
Closing(line, name) ==
    Cardinality({p \in 1..Len(CloseTags(line)) : Lower(CloseTags(line)[p]) = name})

\* The closing tags of a line that are span or p and are on the stack.
MinimalOnStack(line, stack) ==
    Cardinality({p \in 1..Len(CloseTags(line)) :
                     /\ Lower(CloseTags(line)[p]) \in {"span", "p"}
                     /\ LowerCount(stack, Lower(CloseTags(line)[p])) > 0})

\* C28: a line with <br> directly before another closing tag is emitted at
\* current_indent less indent_size // 2 for each closing tag of the line that
\* is span or p and is on the stack (floored at 0); each closing tag of the
\* line that is on the stack is removed from it; current_indent is unchanged.
C28_BreakLineFrame ==
    [][NextLineBreaksAndCloses
           => LET line == lines[i + 1]
                  stack == self.html_tag_stack
              IN  /\ self'.indents
                         = Append(self.indents,
                                  Max(0, self.current_indent
                                             - MinimalOnStack(line, stack)
                                                   * (self.indent_size \div 2)))
                  /\ \A name \in {"div", "span", "p"} :
                         LowerCount(self'.html_tag_stack, name)
                             = Max(0, LowerCount(stack, name) - Closing(line, name))
                  /\ self'.current_indent = self.current_indent]_vars


\* Pass 2 handles next a markup line of case 4: two closing tags, and none of
\* the cases before it.
NextLineClosesSeveral ==
    /\ pc = "pass2"
    /\ i < Len(lines)
    /\ DirectiveCase(lines[i + 1]) = "none"
    /\ ~NextLineEndsParagraph
    /\ ~NextLineBreaksAndCloses
    /\ ~ContainsOnlyNonIndentingTags(LStrip(lines[i + 1]))
    /\ multiple_close_tags_pattern(LStrip(lines[i + 1]))

NextLineIsGeneric ==
    /\ pc = "pass2"
    /\ i < Len(lines)
    /\ DirectiveCase(lines[i + 1]) = "none"
    /\ Strip(lines[i + 1]) # <<>>
    /\ ~IsTxt(Head(Strip(lines[i + 1])), "<%")
    /\ Strip(lines[i + 1]) # <<T("%"), T(">")>>
    /\ ~NextLineEndsParagraph
    /\ ~NextLineBreaksAndCloses
    /\ ~ContainsOnlyNonIndentingTags(LStrip(lines[i + 1]))
    /\ ~multiple_close_tags_pattern(LStrip(lines[i + 1]))

\* Half a step for span and p, a step for any other tag.
StepOf(name, size) == IF Lower(name) \in {"span", "p"} THEN size \div 2 ELSE size

\* What the closing tag of a generic line (it has at most one) takes off
\* current_indent: the step of its name when the name is on the stack.
ClosingDecrement(line, stack, size) ==
    IF /\ CloseTags(line) # <<>>
       /\ LowerCount(stack, Lower(CloseTags(line)[1])) > 0
    THEN StepOf(CloseTags(line)[1], size)
    ELSE 0

\* The opening tags of a line that are pushed: not void, not self-closing.
PushedTags(line) ==
    SelectSeq(OpenTags(line),
              LAMBDA n : /\ Lower(n) \notin {"br", "hr", "img", "input", "link", "meta"}
                         /\ \A q \in 1..Len(SelfClosingTags(line)) :
                                SelfClosingTags(line)[q] # n)

RECURSIVE SumOfSteps(_, _)
SumOfSteps(names, size) ==
    IF names = <<>> THEN 0 ELSE StepOf(Head(names), size) + SumOfSteps(Tail(names), size)

\* C30: in the generic markup case the decrement for the closing tag of a line
\* is applied before the line is emitted, and the pushes and increments for its
\* opening tags after it: the line is emitted at current_indent less the
\* decrement, never further in for a tag it opens itself, and current_indent
\* ends at the emitted indent plus the increments; a closing tag's line that
\* directly follows its opener's line is emitted at the opener's indent.
C30_CloseBeforeEmitOpenAfter ==
    [][(NextLineIsGeneric /\ self'.exc = "none")
           => LET line == lines[i + 1]
                  size == self.indent_size
                  emitted == Max(0, self.current_indent
                                        - ClosingDecrement(line, self.html_tag_stack, size))
              IN  /\ self'.indents = Append(self.indents, emitted)
                  /\ emitted <= self.current_indent
                  /\ self'.current_indent = emitted + SumOfSteps(PushedTags(line), size)
                  /\ Len(self'.html_tag_stack)
                         = Len(self.html_tag_stack)
                               - (IF ClosingDecrement(line, self.html_tag_stack, size) > 0
                                  THEN 1 ELSE 0)
                               + Len(PushedTags(line))
                  /\ \A name \in {"div", "span", "p"} :
                         (/\ i >= 1
                          /\ lines[i] = <<O(name)>>
                          /\ line = <<C(name)>>)
                             => emitted = self.indents[i]]_vars

\* The line <p>hi</p> came with a p open: its </p> took the half step off before
\* the line was emitted, and its <p> was pushed after.
C30_ClosedThenOpenedOnOneLine ==
    /\ pc = "pass2"
    /\ i = 2
    /\ lines[1] = <<O("p")>>
    /\ lines[2] = <<O("p"), T("hi"), C("p")>>
    /\ self.indents = <<0, 0>>
    /\ self.html_tag_stack = <<"p">>
    /\ self.current_indent = self.indent_size \div 2


\* The line is made of closing tags only, with optional whitespace between them.
OnlyClosingTags(line) ==
    /\ Strip(line) # <<>>
    /\ \A p \in 1..Len(Strip(line)) : IsCloseTag(Strip(line)[p]) \/ IsWs(Strip(line)[p])

\* C31: when the post-pass splits a line of three or more adjacent closing tags
\* at base indent B, each fragment is indented one step less than the fragment
\* before it: B, B - step, B - 2 x step, ..., floored at zero.
C31_SplitIndentDecreases ==
    pc = "post" =>
        \A k \in 1..pi :
            LET line == self.output_lines[k]
                B == LeadingSpaces(line)
                frags == FragmentsFrom(k, 1)
            IN  (OnlyClosingTags(line) /\ Len(CloseTags(line)) >= 3)
                    => /\ Len(frags) = Len(CloseTags(line))
                       /\ \A j \in 1..Len(frags) :
                              LeadingSpaces(frags[j])
                                  = Max(0, B - (j - 1) * self.indent_size)


\* The tokens of a line that are not whitespace.
Visible(line) == SelectSeq(line, LAMBDA t : ~IsWs(t))

RECURSIVE VisibleOfAll(_)
VisibleOfAll(ls) == IF ls = <<>> THEN <<>> ELSE Visible(Head(ls)) \o VisibleOfAll(Tail(ls))

\* C32: after the post-pass no output line outside an embedded code region
\* holds a closing tag followed, with at most whitespace between, by another
\* closing tag; the fragments made from one line are emitted one after the
\* other, in the order they had in the line.
C32_NoAdjacentClosingTagsLeft ==
    /\ pc = "post"
           => /\ \A k \in 1..(Len(origin) - 1) : origin[k] <= origin[k + 1]
              /\ \A k \in 1..pi :
                     VisibleOfAll(FragmentsFrom(k, 1)) = Visible(self.output_lines[k])
    /\ pc = "done"
           => \A k \in 1..Len(self.output_lines) :
                  (/\ ~RegionFlag(PassedLines, origin[k] - 1)
                   /\ Strip(PassedLines[origin[k]]) # StartDelimiterLine)
                      => ~multiple_closing_tags_pattern(self.output_lines[k])


\* The indents of the heuristic as C33 states it, for the non-empty lines ls of
\* a block, cur being the indent carried into the first of them.
RECURSIVE ReferenceIndents(_, _, _)
ReferenceIndents(ls, cur, size) ==
    IF ls = <<>> THEN <<>>
    ELSE LET line == LStrip(Head(ls))
             first == Head(line).n
             last == line[Len(line)].n
             at == IF first \in {"}", ");"} THEN cur - size ELSE cur
             opened == IF last \in {"{", "("} THEN at + size ELSE at
             after == IF last = ");" /\ first # "(" THEN opened - size ELSE opened
         IN  <<at>> \o ReferenceIndents(Tail(ls), after, size)

\* The position in ls of the first line that is the start delimiter alone.
FirstStartLine(ls) ==
    CHOOSE p \in 1..Len(ls) :
        /\ ls[p] = StartDelimiterLine
        /\ \A q \in 1..(p - 1) : ls[q] # StartDelimiterLine

\* C33: when the external tool fails, the non-empty lines of the block are
\* emitted in order, each at the indent of this computation: start at one step;
\* before a line, one step less if the trimmed line starts with `}` or `);`;
\* after it, one step more if it ends with `{` or `(`, then one step less if it
\* ends with `);` and does not start with `(`.  This holds for every block,
\* also one with more closers than openers.
C33_FallbackIndents ==
    (/\ pc = "pass2"
     /\ i = 0
     /\ FindStart(content, 1) > 0
     /\ Len(SplitLines(FirstCode(content))) > 1
     /\ tool[1] # "ok")
        => LET code == SelectSeq(SplitLines(FirstCode(content)),
                                 LAMBDA l : Strip(l) # <<>>)
               ref == ReferenceIndents(code, self.indent_size, self.indent_size)
               at == FirstStartLine(lines)
           IN  \A j \in 1..Len(code) :
                   /\ LStrip(lines[at + j]) = LStrip(code[j])
                   /\ LeadingSpaces(lines[at + j]) = ref[j]


\* The sigil spacing as C34 states it, on a directive line without its leading
\* whitespace.
SpacedAfterSigil(stripped) ==
    IF Len(stripped) > 1 /\ FirstChar(stripped[2]) \notin {" ", "\n", "=", "#", "%"}
    THEN <<Head(stripped), W>> \o SubSeq(stripped, 2, Len(stripped))
    ELSE stripped

\* C34: a directive line whose character after the sigil is not whitespace,
\* `=`, `#` or `%` is emitted with exactly one space inserted after the sigil
\* and the rest unchanged; every other directive line is emitted as its text
\* after the leading whitespace; the rule changes nothing on an emitted
\* directive line.
C34_SigilSpacing ==
    [][(pc = "pass2" /\ i < Len(lines) /\ IsMojoCommandLine(lines[i + 1]))
           => LET emitted == self'.output_lines[Len(self'.output_lines)]
              IN  /\ Len(self'.output_lines) = Len(self.output_lines) + 1
                  /\ LStrip(emitted) = SpacedAfterSigil(LStrip(lines[i + 1]))
                  /\ SigilSpace(LStrip(emitted)) = LStrip(emitted)
                  /\ SpacedAfterSigil(LStrip(emitted)) = LStrip(emitted)]_vars

\* The lines %x and %=x have been emitted: the first with a space after the
\* sigil, the second as it was.
C34_SpaceInsertedOnce ==
    /\ pc = "pass2"
    /\ i = 2
    /\ lines = << <<T("%"), T("x")>>, <<T("%"), T("="), T("x")>> >>
    /\ self.output_lines = << <<T("%"), W, T("x")>>, <<T("%"), T("="), T("x")>> >>


\* C35: pass 2 copies every line of a multi-line embedded region that pass 1
\* produced (the start delimiter line, each code line with its indentation,
\* the end delimiter line) to the output byte for byte, and a code line of the
\* region is not classified as a directive line and changes neither the
\* directive stack, nor the markup stack, nor current_indent.
C35_RegionLinesUntouched ==
    [][(/\ pc = "pass2"
        /\ i < Len(lines)
        /\ EndDelimiterLines(lines) = MultiLineBlocks(content)
        /\ \/ Strip(lines[i + 1]) = StartDelimiterLine
           \/ RegionFlag(lines, i))
           => /\ self'.output_lines = Append(self.output_lines, lines[i + 1])
              /\ Strip(lines[i + 1]) # EndDelimiterLine
                     => /\ ~IsMojoCommandLine(lines[i + 1])
                        /\ self'.perl_block_stack = self.perl_block_stack
                        /\ self'.html_tag_stack = self.html_tag_stack
                        /\ self'.current_indent = self.current_indent]_vars


\* The tokens of s that are not whitespace or line breaks, in order.
NonWhitespace(s) == SelectSeq(s, LAMBDA t : t.k \notin {"ws", "nl"})

\* C36: for an input without a multi-line embedded region, the non-whitespace
\* characters of the text format() returns are those of the input, in the
\* same order: nothing is dropped or duplicated.
C36_ContentPreserved ==
    (pc = "done" /\ MultiLineBlocks(content) = 0)
        => NonWhitespace(Join(self.output_lines)) = NonWhitespace(content)


\* For each start delimiter of s, in order, the character that directly
\* follows it when that character is `=` or `#`, and "plain" otherwise.
RECURSIVE TagKinds(_)
TagKinds(s) ==
    IF s = <<>> THEN <<>>
    ELSE IF Head(s) = T("<%")
    THEN <<IF Len(s) > 1 /\ s[2] \in {T("="), T("#")} THEN s[2].n ELSE "plain">>
         \o TagKinds(Tail(s))
    ELSE TagKinds(Tail(s))

\* C37: the normalizer keeps the kind of every single-line embedded tag: a
\* tag opened with `<%=`, `<%==` or `<%#` in the input still has those
\* characters directly after `<%` in the text pass 1 hands to pass 2.
C37_TagKindsKept ==
    (pc = "pass2" /\ i = 0 /\ MultiLineBlocks(content) = 0)
        => TagKinds(Join(lines)) = TagKinds(content)


\* C38: a pass-2 step on a non-blank line appends exactly one line after the
\* lines already emitted, whichever handler runs; with remove_blank_lines
\* disabled a step on a blank line appends one empty line; the post-pass
\* emits the fragments of every pass-2 line, in the order of those lines, so
\* the text returned has at least as many lines as pass 2 emitted.
C38_OneLineInOneLineOut ==
    /\ [][(pc = "pass2" /\ i < Len(lines) /\ self'.exc = "none")
              => LET n == Len(self.output_lines)
                 IN  /\ Strip(lines[i + 1]) # <<>>
                            => /\ Len(self'.output_lines) = n + 1
                               /\ SubSeq(self'.output_lines, 1, n) = self.output_lines
                     /\ (Strip(lines[i + 1]) = <<>> /\ ~self.remove_blank_lines)
                            => self'.output_lines = Append(self.output_lines, <<>>)]_vars
    /\ [](pc = "post"
              => /\ \A k \in 1..(Len(origin) - 1) : origin[k] <= origin[k + 1]
                 /\ {origin[k] : k \in 1..Len(origin)} = 1..pi
                 /\ Len(result_lines) >= pi)
    /\ [](pc = "done" => Len(self.output_lines) >= pi)

\* format() has returned with blank lines kept: the input held a blank line
\* and a line that the post-pass split in two.
C38_BlankKeptAndLineSplit ==
    /\ pc = "done"
    /\ ~self.remove_blank_lines
    /\ \E k \in 1..Len(lines) : Strip(lines[k]) = <<>>
    /\ pi = Len(lines)
    /\ Len(self.output_lines) > pi


\* What the splitting loop keeps in `current` after one iteration: the second
\* tag of the leftmost match and everything after it.
Remainder(current) ==
    SubSeq(current, SkipWs(current, FirstAdjacentClose(current) + 1), Len(current))

\* Every iteration of the splitting loop on current leaves a shorter remainder.
RECURSIVE RemainderShortens(_)
RemainderShortens(current) ==
    multiple_closing_tags_pattern(current)
        => /\ Len(Remainder(current)) < Len(current)
           /\ RemainderShortens(Remainder(current))

\* C39: when every run of the external tool returns, format() terminates (it
\* returns or raises): each iteration of the pass-2 loop consumes one input
\* line, each iteration of the post-pass loop one emitted line, and the
\* splitting loop shortens its remainder on every iteration.
C39_FormatTerminates ==
    /\ (pc # "start" /\ "hang" \notin ToolRuns) ~> (pc \in {"done", "raised"})
    /\ [][/\ pc = "pass2" /\ pc' \in {"pass2", "raised"} => i' = i + 1
          /\ pc = "post" /\ pc' = "post" => pi' = pi + 1]_vars
    /\ [](pc = "post" => \A k \in 1..Len(self.output_lines) :
                             RemainderShortens(self.output_lines[k]))

\* format() has returned after a run of the tool that returned, for a
\* document with a line of three closing tags that the post-pass cut in three.
C39_ReturnedAfterToolAndSplit ==
    /\ pc = "done"
    /\ Len(tool) = 1
    /\ "hang" \notin ToolRuns
    /\ \E k \in 1..Len(lines) : lines[k] = <<C("div"), C("div"), C("div")>>
    /\ Len(self.output_lines) >= Len(lines) + 2

====
